---------------------------- MODULE Spec2Model ----------------------------
(***************************************************************************)
(* A model of the rkyv archive adapters: byte strings, tinyvec vectors,    *)
(* boxes, tuples, arrays, hashed and ordered containers and triomphe       *)
(* shared pointers, over a byte-level writer.                              *)
(*                                                                         *)
(* Offsets are 0-based positions in the writer's buffer; the buffer is a   *)
(* sequence of bytes, so the byte at offset p is buf[p + 1].               *)
(***************************************************************************)
EXTENDS Integers, Sequences, FiniteSets, TLC

(***************************************************************************)
(* Bounds of the model.                                                    *)
(***************************************************************************)
\* longest slice / vector archived in the round-trip specification
MaxLen == 3
\* hashed containers: keys are 1..MaxKey, in every subset, iteration order and
\* hash assignment; hashes are 0..MaxHash
MaxKey == 3
MaxHash == 2
\* hashed containers with keys 1..n, n up to MaxWideLen, in ascending order,
\* all colliding or all with distinct hashes
MaxWideLen == 9
\* ordered containers: keys are drawn from 1..MaxTreeKey; a node holds up to
\* NodeEntries entries (5 in rkyv; 2 here, so that 9 keys need three levels)
MaxTreeKey == 9
NodeEntries == 2
\* shared pointers: a structure of up to MaxHandles Arc fields; at most
\* MaxFails deserializations of a pointee fail
MaxHandles == 3
MaxFails == 1
\* the slice serializer starts with a writer at positions 0..MaxStart
MaxStart == 5

\* The element values the round trip draws from: one-byte values, and
\* four-byte values whose little-endian bytes differ from one another
\* (a negative one and one that needs three bytes).
U8Vals == {0, 10, 255}
I32Vals == {10, -1, 70000}

None == [tag |-> "None"]
Some(x) == [tag |-> "Some", value |-> x]
Ok(x) == [tag |-> "Ok", value |-> x]
Err(e) == [tag |-> "Err", error |-> e]

SeqsUpTo(S, n) == UNION {[1..k -> S] : k \in 0..n}

RECURSIVE Concat(_)
\* the concatenation of a sequence of sequences
Concat(ss) == IF ss = <<>> THEN <<>> ELSE Head(ss) \o Concat(Tail(ss))

(***************************************************************************)
(* Primitive element types and their archived (little-endian) form.        *)
(***************************************************************************)
\* size_of::<Archived<T>>() for the element types of the model
size_of(ty) ==
    CASE ty = "u8" -> 1
      [] ty = "i32" -> 4
      [] ty = "tuple1" -> 4      \* ArchivedTuple1<i32_le>
      [] ty = "tuple2" -> 8      \* ArchivedTuple2<i32_le, u8>, repr(C)
      [] ty = "vec" -> 8         \* ArchivedVec: RelPtr (i32) + ArchivedUsize (u32)
      [] ty = "box" -> 4         \* ArchivedBox<i32_le>: RelPtr (i32)
      [] ty = "box_str" -> 8     \* ArchivedBox<str>: RelPtr (i32) + ArchivedUsize (u32)

\* align_of::<Archived<T>>()
align_of(ty) ==
    CASE ty = "u8" -> 1
      [] OTHER -> 4

\* to_le_bytes of a value of `size` bytes: the low byte, then the rest
\* shifted right arithmetically (two's complement for negatives)
RECURSIVE le_bytes(_, _)
le_bytes(v, size) ==
    IF size = 0 THEN <<>>
    ELSE <<v % 256>> \o le_bytes((v - (v % 256)) \div 256, size - 1)

\* from_le_bytes, unsigned
RECURSIVE from_le(_)
from_le(bs) == IF bs = <<>> THEN 0 ELSE Head(bs) + 256 * from_le(Tail(bs))

\* from_le_bytes, signed (two's complement): the top byte carries the sign
RECURSIVE from_le_signed(_)
from_le_signed(bs) ==
    IF Len(bs) = 1 THEN (IF Head(bs) >= 128 THEN Head(bs) - 256 ELSE Head(bs))
    ELSE Head(bs) + 256 * from_le_signed(Tail(bs))

(***************************************************************************)
(* The writer capability: an append-only buffer and its position.          *)
(***************************************************************************)
pos(w) == Len(w)

\* Writer::write
write(w, bytes) == w \o bytes

\* WriterExt::pad
pad(w, n) == w \o [i \in 1..n |-> 0]

\* WriterExt::align_for::<T>(): pads to the alignment of T's archived form;
\* the position returned to the caller is pos of the result.
align_for(w, ty) == pad(w, (align_of(ty) - (Len(w) % align_of(ty))) % align_of(ty))

\* the bytes of the buffer in [p, p + n)
bytes_at(buf, p, n) == SubSeq(buf, p + 1, p + n)

\* RelPtr::emplace: the signed offset from the pointer's own position
RelPtr_emplace(to, at) == le_bytes(to - at, 4)

\* the offset applied to the position the pointer had in the 64-byte block
\* the buffer was produced in, and not to the address it is read at
RelPtr_target_unrelocated(buf, at) == (at % 64) + from_le_signed(bytes_at(buf, at, 4))
\* RelPtr::as_ptr: the position the relative pointer stored at `at` refers to
RelPtr_target(buf, at) == at + from_le_signed(bytes_at(buf, at, 4))

(***************************************************************************)
(* Archive for primitives and tuples (impls/core/mod.rs).                  *)
(***************************************************************************)
\* the archived bytes of one element resolved at any place (no pointers)
resolve_elem(ty, v) ==
    CASE ty = "u8" -> le_bytes(v, 1)
      [] ty = "i32" -> le_bytes(v, 4)
      [] ty = "tuple1" -> le_bytes(v[1], 4)
      [] ty = "tuple2" -> le_bytes(v[1], 4) \o le_bytes(v[2], 1) \o <<0, 0, 0>>

\* Deserialize of one archived element read in place at offset p
deserialize_elem(buf, ty, p) ==
    CASE ty = "u8" -> from_le(bytes_at(buf, p, 1))
      [] ty = "i32" -> from_le_signed(bytes_at(buf, p, 4))
      [] ty = "tuple1" -> <<from_le_signed(bytes_at(buf, p, 4))>>
      [] ty = "tuple2" -> <<from_le_signed(bytes_at(buf, p, 4)),
                            from_le(bytes_at(buf, p + 4, 1))>>

\* T::COPY_OPTIMIZATION.is_enabled(): primitives whose archived form is the
\* native one; tuples keep the default (disabled)
COPY_OPTIMIZATION(ty) == ty \in {"u8", "i32"}

\* as_bytes of a slice: the native bytes of its elements
as_bytes(items, ty) == Concat([i \in 1..Len(items) |-> resolve_elem(ty, items[i])])

\* WriterExt::resolve_aligned for one element: writes its archived bytes at pos
resolve_aligned_elem(w, ty, v) == write(w, resolve_elem(ty, v))

RECURSIVE resolve_all(_, _, _)
\* the second loop of the general path: every element resolved in index order
resolve_all(w, ty, items) ==
    IF items = <<>> THEN w
    ELSE resolve_all(resolve_aligned_elem(w, ty, Head(items)), ty, Tail(items))

\* <[T] as SerializeUnsized>::serialize_unsized, the copy branch: the writer
\* is aligned and the bytes of the whole slice are written at once
Slice_serialize_copy(w, items, ty) ==
    LET aligned == align_for(w, ty)
    IN  [pos |-> pos(aligned), w |-> write(aligned, as_bytes(items, ty))]

\* the bytes written where the writer stands, with no alignment
Slice_serialize_general_unaligned(w, items, ty) ==
    [pos |-> pos(w), w |-> resolve_all(w, ty, items)]

\* the general branch: every element's serialize (which writes nothing for
\* an element without out-of-line data), the alignment, then every element
\* resolved in index order
Slice_serialize_general(w, items, ty) ==
    LET aligned == align_for(w, ty)
    IN  [pos |-> pos(aligned), w |-> resolve_all(aligned, ty, items)]

\* <[T] as SerializeUnsized>::serialize_unsized: [pos, w] = (returned offset,
\* writer after the call)
Slice_serialize_unsized(w, items, ty) ==
    IF COPY_OPTIMIZATION(ty) THEN Slice_serialize_copy(w, items, ty)
    ELSE Slice_serialize_general(w, items, ty)

(***************************************************************************)
(* ArchivedVec (vec.rs), ArchivedBox (boxed.rs) and the root helpers       *)
(* to_bytes / access_unchecked.                                            *)
(***************************************************************************)
\* ArchivedVec::serialize_from_slice: VecResolver { pos }
ArchivedVec_serialize_from_slice(w, items, ty) ==
    LET r == Slice_serialize_unsized(w, items, ty)
    IN  [resolver |-> [pos |-> r.pos], w |-> r.w]

\* ArchivedVec::resolve_from_slice: the relative pointer, then the length
ArchivedVec_resolve_from_slice(items, resolver, out) ==
    RelPtr_emplace(resolver.pos, out) \o le_bytes(Len(items), 4)

\* ArchivedVec::len read in place
ArchivedVec_len(buf, root) == from_le(bytes_at(buf, root + 4, 4))

\* ArchivedVec::as_slice read in place: the archived elements in order
ArchivedVec_as_slice(buf, root, ty) ==
    LET ptr == RelPtr_target(buf, root)
    IN  [i \in 1..ArchivedVec_len(buf, root) |->
            deserialize_elem(buf, ty, ptr + (i - 1) * size_of(ty))]

\* <T as SerializeUnsized>::serialize_unsized for a sized T without
\* out-of-line data: serialize_and_resolve (align, then resolve at pos)
Sized_serialize_unsized(w, ty, v) ==
    LET aligned == align_for(w, ty)
    IN  [pos |-> pos(aligned), w |-> resolve_aligned_elem(aligned, ty, v)]

\* ArchivedBox::serialize_from_ref: BoxResolver { pos }
ArchivedBox_serialize_from_ref(w, ty, v) ==
    LET r == Sized_serialize_unsized(w, ty, v)
    IN  [resolver |-> [pos |-> r.pos], w |-> r.w]

\* ArchivedBox::resolve_from_ref
ArchivedBox_resolve_from_ref(resolver, out) == RelPtr_emplace(resolver.pos, out)

(***************************************************************************)
(* The adapters: Bytes (impls/bytes.rs), ArrayVec / SliceVec / TinyVec     *)
(* (impls/tinyvec.rs), Box (impls/alloc/boxed.rs), tuples and arrays       *)
(* (impls/core/mod.rs).  A live value is a record [kind, ty, items].       *)
(***************************************************************************)
VecKinds == {"bytes", "array_vec", "slice_vec", "tiny_vec"}

\* impl Serialize for Bytes
Bytes_serialize(w, v) == ArchivedVec_serialize_from_slice(w, v.items, v.ty)
\* the root resolved as for an empty slice
Bytes_resolve_empty(v, resolver, out) == ArchivedVec_resolve_from_slice(<<>>, resolver, out)
\* impl Archive for Bytes
Bytes_resolve(v, resolver, out) == ArchivedVec_resolve_from_slice(v.items, resolver, out)
\* impl Deserialize<Bytes> for ArchivedVec<u8>: extend_from_slice, freeze
Bytes_deserialize(buf, root) == Ok(ArchivedVec_as_slice(buf, root, "u8"))
\* impl PartialEq<Bytes> for ArchivedVec<T>
Bytes_eq(buf, root, v) == v.items = ArchivedVec_as_slice(buf, root, v.ty)

\* every element written with four more bytes after it
ArrayVec_serialize_spaced(w, v) ==
    ArchivedVec_serialize_from_slice(w, [i \in 1..Len(v.items) |-> <<v.items[i], 0>>], "tuple2")
\* impl Serialize for ArrayVec<A>
ArrayVec_serialize(w, v) == ArchivedVec_serialize_from_slice(w, v.items, v.ty)
\* impl Archive for ArrayVec<A>
ArrayVec_resolve(v, resolver, out) == ArchivedVec_resolve_from_slice(v.items, resolver, out)

RECURSIVE push_all(_, _)
\* `for item in self.as_slice() { result.push(item.deserialize(..)?) }`
push_all(result, items) ==
    IF items = <<>> THEN result
    ELSE push_all(Append(result, Head(items)), Tail(items))

\* the new ArrayVec returned with nothing pushed
ArrayVec_deserialize_no_push(buf, root, ty) == Ok(<<>>)
\* impl Deserialize<ArrayVec<A>> for ArchivedVec
ArrayVec_deserialize(buf, root, ty) ==
    Ok(push_all(<<>>, ArchivedVec_as_slice(buf, root, ty)))

\* impl Serialize for SliceVec<'s, T>
SliceVec_serialize(w, v) == ArchivedVec_serialize_from_slice(w, v.items, v.ty)
\* impl Archive for SliceVec<'s, T>
SliceVec_resolve(v, resolver, out) == ArchivedVec_resolve_from_slice(v.items, resolver, out)

\* impl Serialize for TinyVec<A>
TinyVec_serialize(w, v) == ArchivedVec_serialize_from_slice(w, v.items, v.ty)
\* impl Archive for TinyVec<A>
TinyVec_resolve(v, resolver, out) == ArchivedVec_resolve_from_slice(v.items, resolver, out)
\* impl Deserialize<TinyVec<A>> for ArchivedVec
TinyVec_deserialize(buf, root, ty) ==
    Ok(push_all(<<>>, ArchivedVec_as_slice(buf, root, ty)))

\* impl Serialize for Box<T>
Box_serialize(w, v) == ArchivedBox_serialize_from_ref(w, v.ty, v.items)
\* impl Archive for Box<T>
Box_resolve(v, resolver, out) == ArchivedBox_resolve_from_ref(resolver, out)
\* impl Deserialize<Box<T>> for ArchivedBox: the pointee is deserialized into
\* the allocation (allocation failure is not part of this operator)
Box_deserialize(buf, root, ty) == Ok(deserialize_elem(buf, ty, RelPtr_target(buf, root)))
\* impl PartialEq<Box<U>> for ArchivedBox<T>: self.get().eq(other.as_ref())
Box_eq(buf, root, v) == deserialize_elem(buf, v.ty, RelPtr_target(buf, root)) = v.items

\* <str as SerializeUnsized>::serialize_unsized: the position of the writer,
\* then the bytes of the string written there
str_serialize_unsized(w, s) == [pos |-> pos(w), w |-> write(w, s)]
\* <str as ArchiveUnsized>::archived_metadata: the length in bytes
str_archived_metadata(s) == le_bytes(Len(s), 4)
\* <str as ArchivePointee>::pointer_metadata
str_pointer_metadata(buf, at) == from_le(bytes_at(buf, at, 4))

\* impl Serialize for Box<str>: ArchivedBox::serialize_from_ref
BoxStr_serialize(w, v) ==
    LET r == str_serialize_unsized(w, v.items)
    IN  [resolver |-> [pos |-> r.pos], w |-> r.w]
\* impl Archive for Box<str>: ArchivedBox::resolve_from_ref, the relative
\* pointer and then the archived metadata
BoxStr_resolve(v, resolver, out) ==
    RelPtr_emplace(resolver.pos, out) \o str_archived_metadata(v.items)
\* ArchivedBox<str>::get: the bytes the pointer and its metadata refer to
BoxStr_get(buf, root) ==
    bytes_at(buf, RelPtr_target(buf, root), str_pointer_metadata(buf, root + 4))
\* impl Deserialize<Box<str>> for ArchivedBox<str>: the bytes copied out
BoxStr_deserialize(buf, root) == Ok(BoxStr_get(buf, root))

\* impl Serialize for (T0, T1): every field serialized in order; for
\* primitive fields nothing is written and the resolvers are units
Tuple_serialize(w, v) == [resolver |-> <<>>, w |-> w]
\* impl Archive for (T0, T1): field 0 at out + 0, field 1 at out + 4
Tuple_resolve(v, resolver, out) == resolve_elem("tuple2", v.items)
\* impl Deserialize for ArchivedTuple2
Tuple_deserialize(buf, root) == Ok(deserialize_elem(buf, "tuple2", root))

\* impl Serialize for [T; N]
Array_serialize(w, v) == [resolver |-> [i \in 1..Len(v.items) |-> <<>>], w |-> w]
\* impl Archive for [T; N]: element i resolved at out.index(i)
Array_resolve(v, resolver, out) == as_bytes(v.items, v.ty)
\* impl Deserialize<[T; N]> for [T::Archived; N]
Array_deserialize(buf, root, v) ==
    Ok([i \in 1..Len(v.items) |-> deserialize_elem(buf, v.ty, root + (i - 1) * size_of(v.ty))])

(***************************************************************************)
(* The hashed-container table (collections/swiss_table), from the          *)
(* design's description: capacity = ceil(len / load_factor), a key's home  *)
(* bucket is hash(key) mod capacity, a collision probes the next bucket,   *)
(* and every bucket carries its own present/empty marker.                  *)
(* A bucket is [ctrl |-> "empty"] or [ctrl |-> "full", key, value]; a set  *)
(* is a map whose values are the unit (written 0 here).                    *)
(***************************************************************************)
Unit == 0
EmptyBucket == [ctrl |-> "empty"]
FullBucket(k, v) == [ctrl |-> "full", key |-> k, value |-> v]

\* ceil(len / (num / den)) for the load factor lf = <<num, den>>
capacity_from_len(len, lf) == (len * lf[2] + lf[1] - 1) \div lf[1]

RECURSIVE probe_insert(_, _, _)
\* open addressing: the first empty bucket from p on, wrapping around
probe_insert(buckets, p, e) ==
    IF buckets[p + 1].ctrl = "empty"
    THEN [i \in 1..Len(buckets) |-> IF i = p + 1 THEN e ELSE buckets[i]]
    ELSE probe_insert(buckets, (p + 1) % Len(buckets), e)

RECURSIVE insert_all(_, _, _)
insert_all(buckets, iter, hash) ==
    IF iter = <<>> THEN buckets
    ELSE insert_all(probe_insert(buckets, hash[Head(iter)[1]] % Len(buckets),
                                 FullBucket(Head(iter)[1], Head(iter)[2])),
                    Tail(iter), hash)

\* ArchivedHashMap::serialize_from_iter: the bucket array laid out in the
\* buffer for the entries of `iter` (a sequence of <<key, value>>)
SwissTable_serialize_from_iter(iter, lf, hash) ==
    insert_all([i \in 1..capacity_from_len(Len(iter), lf) |-> EmptyBucket], iter, hash)

\* ArchivedHashMap::resolve_from_len: the root's length and capacity
SwissTable_resolve_from_len(len, lf) ==
    [len |-> len, cap |-> capacity_from_len(len, lf)]

\* ArchivedHashMap::iter: the entries of the full buckets, in bucket order
SwissTable_iter(buckets, root) ==
    SelectSeq(SubSeq(buckets, 1, root.cap), LAMBDA b : b.ctrl = "full")

(***************************************************************************)
(* HashSet (impls/hashbrown/hash_set.rs) and HashMap                       *)
(* (impls/std/collections/hash_map.rs).  A live container is               *)
(* [kind, order, vals, hash]: `order` is the order its iter() yields       *)
(* the keys in, `vals` maps each key to its value, `hash` is the keys'     *)
(* Hash impl.                                                              *)
(***************************************************************************)
HashKinds == {"hash_set", "hash_map"}

keys_of(v) == {v.order[i] : i \in 1..Len(v.order)}
\* self.len()
len_of(v) == Len(v.order)
\* self.iter() as a sequence of <<key, value>>
iter_of(v) == [i \in 1..Len(v.order) |-> <<v.order[i], v.vals[v.order[i]]>>]

\* a load factor of 3/4
HashSet_serialize_load_factor_low == <<3, 4>>
\* the load factor HashSet's Serialize passes (hash_set.rs:45)
HashSet_serialize_load_factor == <<7, 8>>
\* a load factor of 1: as many buckets as entries
HashSet_resolve_load_factor_full == <<1, 1>>
\* the load factor HashSet's Archive::resolve passes (hash_set.rs:25)
HashSet_resolve_load_factor == <<7, 8>>
\* the load factor HashMap's Serialize passes (hash_map.rs:41)
HashMap_serialize_load_factor == <<7, 8>>
\* a load factor of 1/2
HashMap_resolve_load_factor_half == <<1, 2>>

\* the load factor HashMap's Archive::resolve passes (hash_map.rs:23)
HashMap_resolve_load_factor == <<7, 8>>

\* impl Serialize for HashSet<K, RS>
HashSet_serialize(v) ==
    SwissTable_serialize_from_iter(iter_of(v), HashSet_serialize_load_factor, v.hash)
\* impl Archive for HashSet<K, S>
HashSet_resolve(v) == SwissTable_resolve_from_len(len_of(v), HashSet_resolve_load_factor)

\* the table built with every key hashed to 0
HashMap_serialize_rehashed(v) ==
    SwissTable_serialize_from_iter(iter_of(v), HashMap_serialize_load_factor,
                                   [k \in keys_of(v) |-> 0])
\* impl Serialize for HashMap<K, V, RandomState>
HashMap_serialize(v) ==
    SwissTable_serialize_from_iter(iter_of(v), HashMap_serialize_load_factor, v.hash)
\* impl Archive for HashMap<K, V, S>
HashMap_resolve(v) == SwissTable_resolve_from_len(len_of(v), HashMap_resolve_load_factor)

RECURSIVE set_insert_all(_, _)
\* `for k in self.iter() { result.insert(k.deserialize(..)?) }`
set_insert_all(result, entries) ==
    IF entries = <<>> THEN result
    ELSE set_insert_all(result \cup {Head(entries).key}, Tail(entries))

\* HashMap::insert / BTreeMap::insert on a live map (a function)
map_insert(m, k, x) == [y \in DOMAIN m \cup {k} |-> IF y = k THEN x ELSE m[y]]

RECURSIVE map_insert_all(_, _)
\* `for (k, v) in self.iter() { result.insert(k.deserialize(..)?, v.deserialize(..)?) }`
map_insert_all(result, entries) ==
    IF entries = <<>> THEN result
    ELSE map_insert_all(map_insert(result, Head(entries).key, Head(entries).value),
                        Tail(entries))

\* impl Deserialize<HashSet<K, S>> for ArchivedHashSet: the set of keys
HashSet_deserialize(buckets, root) == Ok(set_insert_all({}, SwissTable_iter(buckets, root)))
\* impl Deserialize<HashMap<K, V, S>> for ArchivedHashMap: the live map
HashMap_deserialize(buckets, root) == Ok(map_insert_all(<<>>, SwissTable_iter(buckets, root)))

\* impl PartialEq<HashSet<K, S>> for ArchivedHashSet<AK>
HashSet_eq(buckets, root, other) ==
    IF root.len # len_of(other) THEN FALSE
    ELSE \A i \in DOMAIN SwissTable_iter(buckets, root) :
            SwissTable_iter(buckets, root)[i].key \in keys_of(other)

\* impl PartialEq<HashMap<K, V, S>> for ArchivedHashMap<AK, AV>
HashMap_eq(buckets, root, other) ==
    IF root.len # len_of(other) THEN FALSE
    ELSE \A i \in DOMAIN SwissTable_iter(buckets, root) :
            LET e == SwissTable_iter(buckets, root)[i]
            IN  e.key \in keys_of(other) /\ e.value = other.vals[e.key]

(***************************************************************************)
(* The ordered-container encoder (collections/btree_map), from the         *)
(* design's description: fixed-capacity nodes built bottom-up from the     *)
(* sorted run, children written before their parent, lookup by node-local  *)
(* ordered search plus descent, an in-order visit.                         *)
(* A node is [keys, vals, children]; `children` is <<>> for a leaf and     *)
(* holds Len(keys) + 1 node positions otherwise, NoChild for a missing     *)
(* subtree.  A set is a map whose values are the unit.                     *)
(***************************************************************************)
NoChild == -1

Min(a, b) == IF a <= b THEN a ELSE b

RECURSIVE subtree_capacity(_)
\* the entries a subtree of height h can hold
subtree_capacity(h) ==
    IF h = 0 THEN NodeEntries
    ELSE NodeEntries + (NodeEntries + 1) * subtree_capacity(h - 1)

RECURSIVE height_for(_, _)
\* the least height whose capacity holds n entries, from h upwards
height_for(n, h) == IF n <= subtree_capacity(h) THEN h ELSE height_for(n, h + 1)

RECURSIVE build_subtree(_, _)
RECURSIVE build_children(_, _, _, _, _)
\* the children and separating keys of one inner node of height h, taken
\* from the sorted run left to right: a full child, then one key, and so on
build_children(nodes, entries, h, ks, cs) ==
    IF entries = <<>> THEN [nodes |-> nodes, ks |-> ks, cs |-> Append(cs, NoChild)]
    ELSE LET c == Min(subtree_capacity(h - 1), Len(entries))
             sub == build_subtree(nodes, SubSeq(entries, 1, c))
             rest == SubSeq(entries, c + 1, Len(entries))
         IN  IF rest = <<>> \/ Len(ks) = NodeEntries
             THEN [nodes |-> sub.nodes, ks |-> ks, cs |-> Append(cs, sub.pos)]
             ELSE build_children(sub.nodes, Tail(rest), h, Append(ks, Head(rest)),
                                 Append(cs, sub.pos))

\* writes the subtree holding the (non-empty, sorted) entries after `nodes`
\* and returns the buffer and the position of the subtree's root
build_subtree(nodes, entries) ==
    LET h == height_for(Len(entries), 0)
    IN  IF h = 0
        THEN [nodes |-> Append(nodes, [keys |-> [i \in 1..Len(entries) |-> entries[i][1]],
                                       vals |-> [i \in 1..Len(entries) |-> entries[i][2]],
                                       children |-> <<>>]),
              pos |-> Len(nodes)]
        ELSE LET b == build_children(nodes, entries, h, <<>>, <<>>)
             IN  [nodes |-> Append(b.nodes, [keys |-> [i \in 1..Len(b.ks) |-> b.ks[i][1]],
                                             vals |-> [i \in 1..Len(b.ks) |-> b.ks[i][2]],
                                             children |-> b.cs]),
                  pos |-> Len(b.nodes)]

\* ArchivedBTreeMap::serialize_from_ordered_iter: the nodes written and the
\* resolver (the root node's position); nothing is written for no entries
BTree_serialize_from_ordered_iter(iter) ==
    IF iter = <<>> THEN [nodes |-> <<>>, resolver |-> [root_node_pos |-> 0]]
    ELSE LET t == build_subtree(<<>>, iter)
         IN  [nodes |-> t.nodes, resolver |-> [root_node_pos |-> t.pos]]

\* ArchivedBTreeMap::resolve_from_len: the root's length and root pointer
BTree_resolve_from_len(len, resolver) == [len |-> len, pos |-> resolver.root_node_pos]

\* the index of the first key of the node that is >= q (Len + 1 when none)
lower_bound(keys, q) ==
    LET hits == {i \in 1..Len(keys) : keys[i] >= q}
    IN  IF hits = {} THEN Len(keys) + 1 ELSE CHOOSE i \in hits : \A j \in hits : i <= j

RECURSIVE node_get(_, _, _)
node_get(nodes, p, q) ==
    LET node == nodes[p + 1]
        i == lower_bound(node.keys, q)
    IN  IF i <= Len(node.keys) /\ node.keys[i] = q
        THEN Some([key |-> node.keys[i], value |-> node.vals[i]])
        ELSE IF node.children = <<>> THEN None
        ELSE IF node.children[i] = NoChild THEN None
        ELSE node_get(nodes, node.children[i], q)

\* ArchivedBTreeMap::get_key_value read in place
BTree_get(nodes, root, q) == IF root.len = 0 THEN None ELSE node_get(nodes, root.pos, q)

RECURSIVE in_order(_, _)
RECURSIVE in_order_from(_, _, _)
\* child i, entry i, child i + 1, ... of one node
in_order_from(nodes, node, i) ==
    LET below == IF node.children = <<>> \/ node.children[i] = NoChild THEN <<>>
                 ELSE in_order(nodes, node.children[i])
    IN  IF i > Len(node.keys) THEN below
        ELSE below \o <<[key |-> node.keys[i], value |-> node.vals[i]]>>
                   \o in_order_from(nodes, node, i + 1)
in_order(nodes, p) == in_order_from(nodes, nodes[p + 1], 1)

\* ArchivedBTreeMap::visit with a visitor that always continues: the entries
\* in the order the visitor is called with them
BTree_visit(nodes, root) == IF root.len = 0 THEN <<>> ELSE in_order(nodes, root.pos)

(***************************************************************************)
(* BTreeMap (impls/alloc/collections/btree_map.rs) and BTreeSet            *)
(* (impls/alloc/collections/btree_set.rs).  A live container is            *)
(* [kind, keys, vals]; its iter() yields the keys in increasing order.     *)
(***************************************************************************)
TreeKinds == {"btree_set", "btree_map"}

RECURSIVE SortedSeq(_)
SortedSeq(S) ==
    IF S = {} THEN <<>>
    ELSE LET m == CHOOSE x \in S : \A y \in S : x <= y
         IN  <<m>> \o SortedSeq(S \ {m})

Reverse(q) == [i \in 1..Len(q) |-> q[Len(q) + 1 - i]]

\* self.iter() of a BTreeMap / BTreeSet as a sequence of <<key, value>>
btree_iter(v) ==
    LET ks == SortedSeq(v.keys) IN [i \in 1..Len(ks) |-> <<ks[i], v.vals[ks[i]]>>]

\* the entries handed over in decreasing order
BTreeMap_serialize_unordered(v) == BTree_serialize_from_ordered_iter(Reverse(btree_iter(v)))
\* impl Serialize for BTreeMap<K, V>
BTreeMap_serialize(v) == BTree_serialize_from_ordered_iter(btree_iter(v))
\* impl Archive for BTreeMap<K, V>
BTreeMap_resolve(v, resolver) == BTree_resolve_from_len(Cardinality(v.keys), resolver)
\* the keys handed over in decreasing order
BTreeSet_serialize_unordered(v) == BTree_serialize_from_ordered_iter(Reverse(btree_iter(v)))
\* impl Serialize for BTreeSet<K>
BTreeSet_serialize(v) == BTree_serialize_from_ordered_iter(btree_iter(v))
\* impl Archive for BTreeSet<K>
BTreeSet_resolve(v, resolver) == BTree_resolve_from_len(Cardinality(v.keys), resolver)

\* every entry visited, the ones that deserialize inserted, and Ok returned
visit_deserialize_lenient(result, entries, fails, calls) ==
    [result |-> Ok([k \in {entries[i].key : i \in {j \in DOMAIN entries :
                                                    entries[j].key \notin fails}}
                      |-> (CHOOSE e \in {entries[i] : i \in DOMAIN entries} : e.key = k).value]),
     calls |-> calls \o entries]
RECURSIVE visit_deserialize(_, _, _, _)
\* the visitor of Deserialize: the key, then the value, is deserialized; the
\* first failure breaks the visit with the error, else the entry is inserted.
\* [result, calls]: what deserialize returns, and the entries the visitor
\* was called with
visit_deserialize(result, entries, fails, calls) ==
    IF entries = <<>> THEN [result |-> Ok(result), calls |-> calls]
    ELSE IF Head(entries).key \in fails
    THEN [result |-> Err(Head(entries).key), calls |-> Append(calls, Head(entries))]
    ELSE visit_deserialize(map_insert(result, Head(entries).key, Head(entries).value),
                           Tail(entries), fails, Append(calls, Head(entries)))

\* impl Deserialize<BTreeMap<K, V>> for ArchivedBTreeMap; `fails` are the
\* keys whose entry fails to deserialize
BTreeMap_deserialize(nodes, root, fails) ==
    visit_deserialize(<<>>, BTree_visit(nodes, root), fails, <<>>).result
\* impl Deserialize<BTreeSet<K>> for ArchivedBTreeSet
BTreeSet_deserialize(nodes, root, fails) ==
    LET r == visit_deserialize(<<>>, BTree_visit(nodes, root), fails, <<>>).result
    IN  IF r.tag = "Ok" THEN Ok(DOMAIN r.value) ELSE r

RECURSIVE visit_eq(_, _, _)
\* the visitor of PartialEq: the next entry of the live iterator must exist
\* and equal the archived entry, else the visit breaks
visit_eq(entries, iter, withValues) ==
    IF entries = <<>> THEN TRUE
    ELSE IF iter = <<>> THEN FALSE
    ELSE IF Head(entries).key = Head(iter)[1]
            /\ (withValues => Head(entries).value = Head(iter)[2])
         THEN visit_eq(Tail(entries), Tail(iter), withValues)
         ELSE FALSE

\* impl PartialEq<BTreeMap<K, V>> for ArchivedBTreeMap<AK, AV>
BTreeMap_eq(nodes, root, other) ==
    IF root.len # Cardinality(other.keys) THEN FALSE
    ELSE visit_eq(BTree_visit(nodes, root), btree_iter(other), TRUE)
\* impl PartialEq<BTreeSet<K>> for ArchivedBTreeSet<AK>
BTreeSet_eq(nodes, root, other) ==
    IF root.len # Cardinality(other.keys) THEN FALSE
    ELSE visit_eq(BTree_visit(nodes, root), btree_iter(other), FALSE)

(***************************************************************************)
(* Shared pointers: triomphe::Arc (impls/triomphe.rs) over the sharing and *)
(* pooling capabilities (ser::Sharing, de::Pooling) and ArchivedRc, which  *)
(* follow the design's description of the shared-pointer pool.             *)
(* The serialize side is st = [w, pool, written]: the writer, the pool     *)
(* (identity -> offset) and the log of payload writes.  The deserialize    *)
(* side is de = [pool, heap]: the pool (archived offset -> pointer) and    *)
(* the allocations (pointer -> allocation).                                *)
(***************************************************************************)
\* the pointee's serialize_unsized, with the write recorded in the log
payload_serialize_unsized(st, id, v) ==
    LET r == Sized_serialize_unsized(st.w, "i32", v)
    IN  [pos |-> r.pos,
         st |-> [st EXCEPT !.w = r.w, !.written = Append(@, [id |-> id, pos |-> r.pos])]]

\* SharingExt::serialize_shared: the pool is asked by identity first; only a
\* value it does not hold is written, and then recorded
Sharing_serialize_shared(st, id, v) ==
    IF id \in DOMAIN st.pool THEN [pos |-> st.pool[id], st |-> st]
    ELSE LET r == payload_serialize_unsized(st, id, v)
         IN  [pos |-> r.pos, st |-> [r.st EXCEPT !.pool = @ @@ (id :> r.pos)]]

\* ArchivedRc::serialize_from_ref: RcResolver { pos }
ArchivedRc_serialize_from_ref(st, id, v) ==
    LET r == Sharing_serialize_shared(st, id, v)
    IN  [resolver |-> [pos |-> r.pos], st |-> r.st]

\* ArchivedRc::resolve_from_ref
ArchivedRc_resolve_from_ref(resolver, out) == RelPtr_emplace(resolver.pos, out)

\* the pointee written for every pointer, as for a Box
Arc_serialize_unshared(st, id, v) ==
    LET r == payload_serialize_unsized(st, id, v)
    IN  [resolver |-> [pos |-> r.pos], st |-> r.st]

\* impl Serialize for Arc<T>; `id` is the address of the pointee
Arc_serialize(st, id, v) == ArchivedRc_serialize_from_ref(st, id, v)

\* impl Archive for Arc<T>
Arc_resolve(resolver, out) == ArchivedRc_resolve_from_ref(resolver, out)

(***************************************************************************)
(* One archive operation over a slice of Arc<i32>, step by step, as the    *)
(* general branch of the slice serializer runs it: every element's         *)
(* serialize (with the operation's own writer and pool), the alignment,    *)
(* then every element resolved in order.  An operation is a record         *)
(* [handles, payload, st, resolvers, result, resolved, phase].             *)
(***************************************************************************)
\* the operation before its first step: a fresh writer and a fresh pool
Operation_new(handles, payload) ==
    [handles |-> handles, payload |-> payload,
     st |-> [w |-> <<>>, pool |-> <<>>, written |-> <<>>],
     resolvers |-> <<>>, result |-> None, resolved |-> 0, phase |-> "serialize"]

\* a pool that every operation of the process looks in
Operation_step_global_pool(ops, k) ==
    LET op == ops[k]
        other == ops[IF k = 1 THEN Len(ops) ELSE 1]
        i == Len(op.resolvers) + 1
        j == op.resolved + 1
    IN  CASE op.phase = "serialize" ->
                LET r == Arc_serialize([op.st EXCEPT !.pool = @ @@ other.st.pool],
                                       op.handles[i], op.payload[op.handles[i]])
                IN  [op EXCEPT !.st = r.st, !.resolvers = Append(@, r.resolver),
                               !.phase = IF i = Len(op.handles) THEN "align" ELSE "serialize"]
          [] op.phase = "align" ->
                LET aligned == align_for(op.st.w, "box")
                IN  [op EXCEPT !.st.w = aligned, !.result = Some(pos(aligned)),
                               !.phase = "resolve"]
          [] op.phase = "resolve" ->
                [op EXCEPT !.st.w = write(@, Arc_resolve(op.resolvers[j], pos(op.st.w))),
                           !.resolved = j,
                           !.phase = IF j = Len(op.handles) THEN "done" ELSE "resolve"]
          [] op.phase = "done" -> op
\* one pass: every element resolved as soon as it is serialized
Operation_step_one_pass(ops, k) ==
    LET op == ops[k]
        i == Len(op.resolvers) + 1
        j == op.resolved + 1
    IN  CASE op.phase = "serialize" ->
                LET r == Arc_serialize(op.st, op.handles[i], op.payload[op.handles[i]])
                    aligned == align_for(r.st.w, "box")
                IN  [op EXCEPT !.st = [r.st EXCEPT !.w = write(aligned,
                                           Arc_resolve(r.resolver, pos(aligned)))],
                               !.resolvers = Append(@, r.resolver),
                               !.result = IF i = 1 THEN Some(pos(aligned)) ELSE @,
                               !.resolved = i,
                               !.phase = IF i = Len(op.handles) THEN "done" ELSE "serialize"]
          [] op.phase = "align" ->
                [op EXCEPT !.result = Some(pos(op.st.w)), !.phase = "resolve"]
          [] op.phase = "resolve" ->
                [op EXCEPT !.resolved = j,
                           !.phase = IF j = Len(op.handles) THEN "done" ELSE "resolve"]
          [] op.phase = "done" -> op

\* the next step of operation k: `value.serialize(serializer)?` for the next
\* element, `serializer.align_for::<T::Archived>()?`, or
\* `serializer.resolve_aligned(value, resolver)?` for the next element.  The
\* serializer is borrowed by the operation alone.
Operation_step(ops, k) ==
    LET op == ops[k]
        i == Len(op.resolvers) + 1
        j == op.resolved + 1
    IN  CASE op.phase = "serialize" ->
                LET r == Arc_serialize(op.st, op.handles[i], op.payload[op.handles[i]])
                IN  [op EXCEPT !.st = r.st, !.resolvers = Append(@, r.resolver),
                               !.phase = IF i = Len(op.handles) THEN "align" ELSE "serialize"]
          [] op.phase = "align" ->
                LET aligned == align_for(op.st.w, "box")
                IN  [op EXCEPT !.st.w = aligned, !.result = Some(pos(aligned)),
                               !.phase = "resolve"]
          [] op.phase = "resolve" ->
                [op EXCEPT !.st.w = write(@, Arc_resolve(op.resolvers[j], pos(op.st.w))),
                           !.resolved = j,
                           !.phase = IF j = Len(op.handles) THEN "done" ELSE "resolve"]
          [] op.phase = "done" -> op

RECURSIVE Operation_run(_)
\* the operation run on its own from where it stands to its end
Operation_run(op) ==
    IF op.phase = "done" THEN op ELSE Operation_run(Operation_step(<<op>>, 1))

\* the pointer a new allocation gets: any address not in use; it is named
\* here after the archived offset it is made for and the allocations made
\* for that offset before
fresh_ptr(heap, address) ==
    <<address, Cardinality({p \in DOMAIN heap : p[1] = address})>>

\* SharedPointer::alloc for Arc<T>: Arc::new_uninit at the pointer `out`, one
\* owner, no value yet
Arc_alloc(heap, out) ==
    heap @@ (out :> [count |-> 1, init |-> FALSE, value |-> 0, alive |-> TRUE])

\* SharedPointer::from_value for Arc<T>: the pointer itself
Arc_from_value(ptr) == ptr

\* SharedPointer::drop for Arc<T>, and the drop of a handle: one owner less,
\* and the allocation is freed with the last one
Arc_drop(heap, ptr) ==
    [heap EXCEPT ![ptr].count = @ - 1, ![ptr].alive = (heap[ptr].count > 1)]

\* PoolingExt::deserialize_shared: a pooled offset answers with its pointer;
\* otherwise the allocation is made, the pointee deserialized into it (this
\* is where `fail` strikes), and only then is the pointer registered
Pooling_deserialize_shared(de, address, v, fail) ==
    IF address \in DOMAIN de.pool THEN [result |-> Ok(de.pool[address]), de |-> de]
    ELSE LET out == fresh_ptr(de.heap, address)
             heap1 == Arc_alloc(de.heap, out)
         IN  IF fail THEN [result |-> Err("pointee"), de |-> [de EXCEPT !.heap = heap1]]
             ELSE [result |-> Ok(Arc_from_value(out)),
                   de |-> [pool |-> de.pool @@ (address :> Arc_from_value(out)),
                           heap |-> [heap1 EXCEPT ![out].init = TRUE, ![out].value = v]]]

\* the pointer registered before its pointee is deserialized
Arc_deserialize_registered_early(de, address, v, fail) ==
    IF address \in DOMAIN de.pool
    THEN [result |-> Ok(de.pool[address]),
          de |-> [de EXCEPT !.heap[de.pool[address]].count = @ + 1]]
    ELSE LET out == fresh_ptr(de.heap, address)
             heap1 == Arc_alloc(de.heap, out)
             pool1 == de.pool @@ (address :> Arc_from_value(out))
         IN  IF fail THEN [result |-> Err("pointee"), de |-> [pool |-> pool1, heap |-> heap1]]
             ELSE [result |-> Ok(Arc_from_value(out)),
                   de |-> [pool |-> pool1,
                           heap |-> [heap1 EXCEPT ![out].init = TRUE, ![out].value = v,
                                                  ![out].count = @ + 1]]]

\* a fresh allocation for every pointer, as for a Box
Arc_deserialize_unpooled(de, address, v, fail) ==
    LET out == fresh_ptr(de.heap, address)
        heap1 == Arc_alloc(de.heap, out)
    IN  IF fail THEN [result |-> Err("pointee"), de |-> [de EXCEPT !.heap = heap1]]
        ELSE [result |-> Ok(out),
              de |-> [de EXCEPT !.heap = [heap1 EXCEPT ![out].init = TRUE, ![out].value = v]]]

\* the handle made from the raw pointer with no owner added for it
Arc_deserialize_unforgotten(de, address, v, fail) ==
    Pooling_deserialize_shared(de, address, v, fail)

\* impl Deserialize<Arc<T>> for ArchivedRc: the raw pointer from the pool,
\* Arc::from_raw, forget(clone) (one more owner), the handle
Arc_deserialize(de, address, v, fail) ==
    LET r == Pooling_deserialize_shared(de, address, v, fail)
    IN  IF r.result.tag = "Err" THEN r
        ELSE [result |-> r.result,
              de |-> [r.de EXCEPT !.heap[r.result.value].count = @ + 1]]

(***************************************************************************)
(* The root helpers (api): to_bytes = serialize_value into a fresh buffer, *)
(* access_unchecked = the root at the end of the buffer.                   *)
(***************************************************************************)
\* the containers, whose buffer is counted here in archived objects (the
\* buckets or nodes, then the root) and not in bytes
ContainerKinds == HashKinds \cup TreeKinds

\* the archived type of a live value, and its size
archived_ty(v) ==
    CASE v.kind \in VecKinds -> "vec"
      [] v.kind = "box" -> "box"
      [] v.kind = "box_str" -> "box_str"
      [] v.kind = "tuple" -> "tuple2"
      [] v.kind = "array" -> v.ty
archived_size(v) ==
    CASE v.kind = "array" -> Len(v.items) * size_of(v.ty)
      [] v.kind \in ContainerKinds -> 1
      [] OTHER -> size_of(archived_ty(v))

\* Serialize::serialize, by the type of the value
serialize(w, v) ==
    CASE v.kind = "bytes" -> Bytes_serialize(w, v)
      [] v.kind = "array_vec" -> ArrayVec_serialize(w, v)
      [] v.kind = "slice_vec" -> SliceVec_serialize(w, v)
      [] v.kind = "tiny_vec" -> TinyVec_serialize(w, v)
      [] v.kind = "box" -> Box_serialize(w, v)
      [] v.kind = "box_str" -> BoxStr_serialize(w, v)
      [] v.kind = "tuple" -> Tuple_serialize(w, v)
      [] v.kind = "array" -> Array_serialize(w, v)
      [] v.kind = "hash_set" -> [resolver |-> <<>>, w |-> HashSet_serialize(v)]
      [] v.kind = "hash_map" -> [resolver |-> <<>>, w |-> HashMap_serialize(v)]
      [] v.kind = "btree_set" ->
            LET r == BTreeSet_serialize(v) IN [resolver |-> r.resolver, w |-> r.nodes]
      [] v.kind = "btree_map" ->
            LET r == BTreeMap_serialize(v) IN [resolver |-> r.resolver, w |-> r.nodes]

\* Archive::resolve, by the type of the value: what is written at `out`
resolve(v, resolver, out) ==
    CASE v.kind = "bytes" -> Bytes_resolve(v, resolver, out)
      [] v.kind = "array_vec" -> ArrayVec_resolve(v, resolver, out)
      [] v.kind = "slice_vec" -> SliceVec_resolve(v, resolver, out)
      [] v.kind = "tiny_vec" -> TinyVec_resolve(v, resolver, out)
      [] v.kind = "box" -> Box_resolve(v, resolver, out)
      [] v.kind = "box_str" -> BoxStr_resolve(v, resolver, out)
      [] v.kind = "tuple" -> Tuple_resolve(v, resolver, out)
      [] v.kind = "array" -> Array_resolve(v, resolver, out)
      [] v.kind = "hash_set" -> <<HashSet_resolve(v)>>
      [] v.kind = "hash_map" -> <<HashMap_resolve(v)>>
      [] v.kind = "btree_set" -> <<BTreeSet_resolve(v, resolver)>>
      [] v.kind = "btree_map" -> <<BTreeMap_resolve(v, resolver)>>

\* the buckets or nodes before a container's root, and the root itself
tail_of(buf, root) == SubSeq(buf, 1, root)
root_of(buf, root) == buf[root + 1]

\* Deserialize::deserialize, by the type asked for
deserialize(buf, root, v) ==
    CASE v.kind = "bytes" -> Bytes_deserialize(buf, root)
      [] v.kind = "array_vec" -> ArrayVec_deserialize(buf, root, v.ty)
      [] v.kind = "tiny_vec" -> TinyVec_deserialize(buf, root, v.ty)
      [] v.kind = "box" -> Box_deserialize(buf, root, v.ty)
      [] v.kind = "box_str" -> BoxStr_deserialize(buf, root)
      [] v.kind = "tuple" -> Tuple_deserialize(buf, root)
      [] v.kind = "array" -> Array_deserialize(buf, root, v)
      [] v.kind = "hash_set" -> HashSet_deserialize(tail_of(buf, root), root_of(buf, root))
      [] v.kind = "hash_map" -> HashMap_deserialize(tail_of(buf, root), root_of(buf, root))
      [] v.kind = "btree_set" ->
            BTreeSet_deserialize(tail_of(buf, root), root_of(buf, root), {})
      [] v.kind = "btree_map" ->
            BTreeMap_deserialize(tail_of(buf, root), root_of(buf, root), {})

\* what is read in place from the archived root, with no deserialize step:
\* the slice, the pointee, the fields, the elements, or the entries in the
\* order the archived container yields them
read_in_place(buf, root, v) ==
    CASE v.kind \in VecKinds -> ArchivedVec_as_slice(buf, root, v.ty)
      [] v.kind = "box" -> deserialize_elem(buf, v.ty, RelPtr_target(buf, root))
      [] v.kind = "box_str" -> BoxStr_get(buf, root)
      [] v.kind = "tuple" -> deserialize_elem(buf, "tuple2", root)
      [] v.kind = "array" ->
            [i \in 1..Len(v.items) |-> deserialize_elem(buf, v.ty, root + (i - 1) * size_of(v.ty))]
      [] v.kind \in HashKinds -> SwissTable_iter(tail_of(buf, root), root_of(buf, root))
      [] v.kind \in TreeKinds -> BTree_visit(tail_of(buf, root), root_of(buf, root))

\* `archived == value`: the PartialEq impl between the archived and the live
\* type where there is one, else the comparison of what is read in place
archived_eq(buf, root, v) ==
    CASE v.kind = "bytes" -> Bytes_eq(buf, root, v)
      [] v.kind = "box" -> Box_eq(buf, root, v)
      [] v.kind = "hash_set" -> HashSet_eq(tail_of(buf, root), root_of(buf, root), v)
      [] v.kind = "hash_map" -> HashMap_eq(tail_of(buf, root), root_of(buf, root), v)
      [] v.kind = "btree_set" -> BTreeSet_eq(tail_of(buf, root), root_of(buf, root), v)
      [] v.kind = "btree_map" -> BTreeMap_eq(tail_of(buf, root), root_of(buf, root), v)
      [] OTHER -> read_in_place(buf, root, v) = v.items

\* the archived length read in place (ArchivedVec::len, ArchivedHashMap::len,
\* ArchivedBTreeMap::len), for the types that have one
archived_len(buf, root, v) ==
    CASE v.kind \in VecKinds -> ArchivedVec_len(buf, root)
      [] v.kind \in ContainerKinds -> root_of(buf, root).len
      [] OTHER -> 1

\* to_bytes: serialize, align for the archived root, resolve it at pos
to_bytes(v) ==
    LET s == serialize(<<>>, v)
        aligned == IF v.kind \in ContainerKinds THEN s.w ELSE align_for(s.w, archived_ty(v))
    IN  write(aligned, resolve(v, s.resolver, pos(aligned)))

\* access_unchecked: the root position, len - size_of (saturating)
access_unchecked(buf, size) == IF Len(buf) >= size THEN Len(buf) - size ELSE 0

\* the content of a live value that its own equality compares: the items in
\* order, the set of keys, or the map from keys to values
content_of(v) ==
    CASE v.kind = "hash_set" -> keys_of(v)
      [] v.kind = "btree_set" -> v.keys
      [] v.kind \in {"hash_map", "btree_map"} -> v.vals
      [] OTHER -> v.items

Perms(S) == {f \in [1..Cardinality(S) -> S] : \A i, j \in DOMAIN f : i # j => f[i] # f[j]}

MapVals == {10, 20}

\* every container over keys of 1..MaxKey: any iteration order, any hash
HashValuesSmall ==
    UNION {UNION {
        [kind : {"hash_set"}, order : Perms(K), vals : {[k \in K |-> Unit]},
         hash : [K -> 0..MaxHash]]
        \cup [kind : {"hash_map"}, order : Perms(K), vals : {[k \in K |-> 10 * k]},
              hash : [K -> 0..MaxHash]]} : K \in SUBSET (1..MaxKey)}

\* keys 1..n in ascending order, all colliding or all with their own hash
HashValuesWide ==
    UNION {
        [kind : {"hash_set"}, order : {[i \in 1..n |-> i]}, vals : {[k \in 1..n |-> Unit]},
         hash : {[k \in 1..n |-> 0], [k \in 1..n |-> k]}] : n \in 0..MaxWideLen}

HashValues == HashValuesSmall \cup HashValuesWide


TreeValuesSmall ==
    UNION {[kind : {"btree_set"}, keys : {K}, vals : {[k \in K |-> Unit]}]
           \cup [kind : {"btree_map"}, keys : {K}, vals : [K -> MapVals]]
           : K \in SUBSET (1..MaxKey)}
TreeValuesWide ==
    UNION {[kind : {"btree_set"}, keys : {K}, vals : {[k \in K |-> Unit]}]
           \cup [kind : {"btree_map"}, keys : {K}, vals : {[k \in K |-> 10 + k]}]
           : K \in SUBSET (1..MaxTreeKey)}
TreeValues == TreeValuesSmall \cup TreeValuesWide


\* the list the tests of the tinyvec impls archive
TestList == <<10, 20, 40, 80>>

\* the live values the round trip archives
Values ==
    [kind : {"bytes"}, ty : {"u8"}, items : SeqsUpTo(U8Vals, MaxLen)]
    \cup [kind : {"array_vec", "slice_vec", "tiny_vec", "array"}, ty : {"i32"},
          items : SeqsUpTo(I32Vals, MaxLen)]
    \cup [kind : {"array_vec"}, ty : {"tuple1"},
          items : SeqsUpTo({<<x>> : x \in I32Vals}, MaxLen)]
    \cup [kind : {"array_vec", "slice_vec", "tiny_vec"}, ty : {"i32"}, items : {TestList}]
    \cup [kind : {"box"}, ty : {"i32"}, items : I32Vals]
    \cup [kind : {"box_str"}, ty : {"u8"}, items : SeqsUpTo(U8Vals, MaxLen)]
    \cup [kind : {"tuple"}, ty : {"tuple2"}, items : I32Vals \X U8Vals]
    \cup HashValues
    \cup TreeValues

(***************************************************************************)
(* Deserialize<Box<T>> for ArchivedBox (impls/alloc/boxed.rs) with the     *)
(* allocator.  The archived box is [kind, metadata, items]: a sized i32,   *)
(* a slice of i32 or a str, the metadata read from the archive, and the    *)
(* archived elements.  A pointer is "allocated", "dangling" or "null".     *)
(***************************************************************************)
\* Layout::array::<T>(n): an error when n elements of `size` bytes exceed
\* isize::MAX bytes (2^31 - 1 on the target of the model)
Layout_array(size, n) ==
    IF n > 2147483647 \div size THEN Err("LayoutError") ELSE Ok([size |-> n * size])

\* LayoutRaw::layout_raw for T, [T] and str
layout_raw(kind, metadata) ==
    CASE kind = "sized" -> Ok([size |-> size_of("i32")])
      [] kind = "slice" -> Layout_array(size_of("i32"), metadata)
      [] kind = "str" -> Layout_array(size_of("u8"), metadata)

\* alloc::alloc(layout): the block, or a null pointer when the allocation
\* fails
alloc_alloc(layout, fails) == IF fails THEN "null" ELSE "allocated"

\* DeserializeUnsized::deserialize_unsized into `out`: every element is
\* deserialized and written through `out` in order; the element at
\* `fail_at` (0: none) fails to deserialize, which ends the loop before its
\* write.  A str is copied whole and cannot fail.
deserialize_unsized(kind, items, fail_at, out) ==
    IF kind # "str" /\ fail_at \in 1..Len(items)
    THEN [result |-> Err("pointee"), written |-> fail_at - 1]
    ELSE [result |-> Ok(Unit), written |-> Len(items)]

\* <ArchivedBox<T::Archived> as Deserialize<Box<T>, D>>::deserialize:
\* [result, through, written] = what is returned, the pointer the pointee
\* was written through ("none" when nothing was written) and the number of
\* elements written.  The pointer alloc returns is used as it is; a write
\* through a null pointer is undefined behaviour, after which the call
\* either crashes or carries on (`ub`).
ArchivedBox_deserialize(archived, alloc_fails, fail_at, ub) ==
    LET layout == layout_raw(archived.kind, archived.metadata)
        data_address == IF layout.value.size > 0 THEN alloc_alloc(layout.value, alloc_fails)
                        ELSE "dangling"
        r == deserialize_unsized(archived.kind, archived.items, fail_at, data_address)
        through == IF r.written > 0 THEN data_address ELSE "none"
    IN  IF layout.tag = "Err" THEN [result |-> layout, through |-> "none", written |-> 0]
        ELSE IF through = "null" /\ ub = "crash"
             THEN [result |-> [tag |-> "Crash"], through |-> through, written |-> 0]
        ELSE IF r.result.tag = "Err"
             THEN [result |-> r.result, through |-> through, written |-> r.written]
        ELSE [result |-> Ok([ptr |-> data_address, value |-> archived.items]),
              through |-> through, written |-> r.written]

(***************************************************************************)
(* Serialization through a writer that can reject a call.  The serializer  *)
(* is st = [w, calls, fail_at, events, rejected]: the bytes accepted so    *)
(* far, the number of calls made on the writer, the call it rejects (0:    *)
(* none), the serialize and resolve steps begun, and the number of steps   *)
(* begun when the call was rejected.  Every operation gives [st, result].  *)
(* The elements are i32 (nothing out of line) or Box<i32> (the pointee is  *)
(* written by serialize, the relative pointer by resolve).                 *)
(***************************************************************************)
\* one call on the writer
Writer_call(st, bytes, value) ==
    IF st.calls + 1 = st.fail_at
    THEN [st |-> [st EXCEPT !.calls = @ + 1, !.rejected = Some(Len(st.events))],
          result |-> Err("WriterError")]
    ELSE [st |-> [st EXCEPT !.calls = @ + 1, !.w = write(@, bytes)], result |-> Ok(value)]

\* Writer::write
try_write(st, bytes) == Writer_call(st, bytes, Unit)
\* WriterExt::align_for::<T>(): the padding is written, the aligned position
\* is returned
try_align_for(st, ty) ==
    Writer_call(st, SubSeq(align_for(st.w, ty), Len(st.w) + 1, Len(align_for(st.w, ty))),
                pos(align_for(st.w, ty)))

\* a step begun
note(st, step) == [st EXCEPT !.events = Append(@, step)]

\* Serialize::serialize of element i: nothing for an i32; for a Box<i32>
\* the pointee is aligned and written, and its position is the resolver
Elem_serialize(st, ty, v, i) ==
    IF ty = "i32" THEN [st |-> note(st, <<"serialize", i>>), result |-> Ok([pos |-> 0])]
    ELSE LET a == try_align_for(note(st, <<"serialize", i>>), "i32")
             r == try_write(a.st, le_bytes(v, 4))
         IN  IF a.result.tag = "Err" THEN a
             ELSE IF r.result.tag = "Err" THEN r
             ELSE [st |-> r.st, result |-> Ok([pos |-> a.result.value])]

\* WriterExt::resolve_aligned of element i: its archived form is written
\* where the writer stands
Elem_resolve_aligned(st, ty, v, resolver, i) ==
    try_write(note(st, <<"resolve", i>>),
              IF ty = "i32" THEN le_bytes(v, 4) ELSE RelPtr_emplace(resolver.pos, pos(st.w)))

RECURSIVE serialize_each(_, _, _, _, _)
\* `for value in self.iter() { resolvers.push(value.serialize(serializer)?) }`
serialize_each(st, ty, items, i, resolvers) ==
    IF i > Len(items) THEN [st |-> st, result |-> Ok(resolvers)]
    ELSE LET r == Elem_serialize(st, ty, items[i], i)
         IN  IF r.result.tag = "Err" THEN r
             ELSE serialize_each(r.st, ty, items, i + 1, Append(resolvers, r.result.value))

RECURSIVE resolve_each(_, _, _, _, _)
\* `for (value, resolver) in .. { serializer.resolve_aligned(value, resolver)? }`
resolve_each(st, ty, items, resolvers, i) ==
    IF i > Len(items) THEN [st |-> st, result |-> Ok(Unit)]
    ELSE LET r == Elem_resolve_aligned(st, ty, items[i], resolvers[i], i)
         IN  IF r.result.tag = "Err" THEN r
             ELSE resolve_each(r.st, ty, items, resolvers, i + 1)

\* <[T] as SerializeUnsized<S>>::serialize_unsized with every `?`
Slice_try_serialize_unsized(st, items, ty) ==
    IF COPY_OPTIMIZATION(ty)
    THEN LET a == try_align_for(st, ty)
             r == try_write(a.st, as_bytes(items, ty))
         IN  IF a.result.tag = "Err" THEN a
             ELSE IF r.result.tag = "Err" THEN r
             ELSE [st |-> r.st, result |-> a.result]
    ELSE LET s == serialize_each(st, ty, items, 1, <<>>)
             a == try_align_for(s.st, ty)
             r == resolve_each(a.st, ty, items, s.result.value, 1)
         IN  IF s.result.tag = "Err" THEN s
             ELSE IF a.result.tag = "Err" THEN a
             ELSE IF r.result.tag = "Err" THEN r
             ELSE [st |-> r.st, result |-> a.result]

\* the second field serialized whatever the first one returned
Tuple_try_serialize_lenient(st, items, ty) ==
    LET r0 == Elem_serialize(st, ty, items[1], 1)
        r1 == Elem_serialize(r0.st, ty, items[2], 2)
    IN  IF r0.result.tag = "Err" THEN [st |-> r1.st, result |-> r0.result]
        ELSE IF r1.result.tag = "Err" THEN r1
        ELSE [st |-> r1.st, result |-> Ok(<<r0.result.value, r1.result.value>>)]
\* impl Serialize<S> for (T0, T1):
\* `Ok((self.0.serialize(serializer)?, self.1.serialize(serializer)?))`
Tuple_try_serialize(st, items, ty) ==
    LET r0 == Elem_serialize(st, ty, items[1], 1)
        r1 == Elem_serialize(r0.st, ty, items[2], 2)
    IN  IF r0.result.tag = "Err" THEN r0
        ELSE IF r1.result.tag = "Err" THEN r1
        ELSE [st |-> r1.st, result |-> Ok(<<r0.result.value, r1.result.value>>)]

\* impl Serialize<S> for [T; N]: the loop over the elements with `?`
Array_try_serialize(st, items, ty) == serialize_each(st, ty, items, 1, <<>>)

(***************************************************************************)
(* ArchivedOption (option.rs): the comparisons with Option and the         *)
(* iterator.  An element is [v |-> n], or [nan |-> TRUE] for a value that  *)
(* no value is ordered with.  An ordering is "Less", "Equal" or "Greater". *)
(***************************************************************************)
is_nan(x) == "nan" \in DOMAIN x

\* the elements' own PartialOrd::partial_cmp
elem_partial_cmp(x, y) ==
    IF is_nan(x) \/ is_nan(y) THEN None
    ELSE Some(IF x.v < y.v THEN "Less" ELSE IF x.v = y.v THEN "Equal" ELSE "Greater")

\* Ordering::reverse
reverse(ord) ==
    CASE ord = "Less" -> "Greater"
      [] ord = "Equal" -> "Equal"
      [] ord = "Greater" -> "Less"

\* impl PartialOrd<Option<T>> for ArchivedOption<U>
ArchivedOption_partial_cmp(self, other) ==
    CASE self = None /\ other = None -> Some("Equal")
      [] self = None /\ other # None -> Some("Less")
      [] self # None /\ other = None -> Some("Greater")
      [] self # None /\ other # None -> elem_partial_cmp(self.value, other.value)

\* the elements compared the other way round and the result not reversed
Option_partial_cmp_unreversed(self, other) ==
    CASE self = None /\ other = None -> Some("Equal")
      [] self = None /\ other # None -> Some("Less")
      [] self # None /\ other = None -> Some("Greater")
      [] self # None /\ other # None -> elem_partial_cmp(other.value, self.value)
\* impl PartialOrd<ArchivedOption<T>> for Option<U> (feature extra_traits):
\* `other_value.partial_cmp(self_value).map(|ord| ord.reverse())`
Option_partial_cmp(self, other) ==
    CASE self = None /\ other = None -> Some("Equal")
      [] self = None /\ other # None -> Some("Less")
      [] self # None /\ other = None -> Some("Greater")
      [] self # None /\ other # None ->
            LET ord == elem_partial_cmp(other.value, self.value)
            IN  IF ord = None THEN None ELSE Some(reverse(ord.value))

\* ArchivedOption::iter: Iter { inner: self.as_ref() }
ArchivedOption_iter(self) == [inner |-> self]

\* a next that hands out the value and keeps it
Iter_next_kept(iter) == [iter |-> iter, result |-> iter.inner]
\* <Iter as Iterator>::next: the inner option is swapped with None and
\* returned
Iter_next(iter) == [iter |-> [inner |-> None], result |-> iter.inner]
\* <Iter as DoubleEndedIterator>::next_back: self.next()
Iter_next_back(iter) == Iter_next(iter)

(***************************************************************************)
(* The with-wrappers Niche and Skip (with/impls/core.rs).                  *)
(***************************************************************************)
\* target_pointer_width of the build: the width in bits of the native isize
\* and usize.  The model's integers are 32 bits wide, so a 64-bit target is
\* stood for by the 32-bit one.
TargetWidths == {16, 32}
\* the features pointer_width_16, neither, pointer_width_64: the width in
\* bits of FixedIsize / FixedUsize, the archived isize / usize
PointerWidths == {16, 32, 64}

\* the native values of NonZeroIsize / NonZeroUsize on a target
NonZeroIsizeVals(target) ==
    IF target = 16 THEN {1, -1, 32767, -32768}
    ELSE {1, -1, 32767, -32768, 32768, -32769, 2147483647, -2147483647}
NonZeroUsizeVals(target) ==
    IF target = 16 THEN {1, 255, 65535}
    ELSE {1, 255, 65535, 65536, 2147483647}

\* TryFrom<NonZeroIsize> for FixedNonZeroIsize, TryFrom<NonZeroUsize> for
\* FixedNonZeroUsize, and the conversions back: the value when it is in the
\* range of the width converted to (16 bits: -2^15 .. 2^15 - 1 signed,
\* 0 .. 2^16 - 1 unsigned), an error otherwise
try_into_isize(x, width) ==
    IF width >= 32 \/ (x >= -32768 /\ x < 32768) THEN Ok(x) ELSE Err("TryFromIntError")
try_into_usize(x, width) ==
    IF width >= 32 \/ x < 65536 THEN Ok(x) ELSE Err("TryFromIntError")

\* Result::unwrap: the value of an Ok, a panic on an Err
Panic == [tag |-> "Panic"]
unwrap(r) == IF r.tag = "Ok" THEN r.value ELSE Panic

\* Option::map over a closure that may panic
map_unwrap(o, r) == IF o = None THEN None ELSE IF r.tag = "Err" THEN Panic ELSE Some(unwrap(r))

\* <Niche as SerializeWith<Option<NonZeroIsize>, S>>::serialize_with and the
\* same for Option<NonZeroUsize>: Ok(()) whatever the field is
Niche_serialize_with(field, w) == [w |-> w, result |-> Ok(Unit)]

\* <Niche as ArchiveWith<Option<NonZeroIsize>>>::resolve_with: the field is
\* converted to the archived width and unwrapped, then written as the
\* archived option
Niche_resolve_with_isize(field, width) ==
    map_unwrap(field, IF field = None THEN Ok(0) ELSE try_into_isize(field.value, width))
\* <Niche as ArchiveWith<Option<NonZeroUsize>>>::resolve_with
Niche_resolve_with_usize(field, width) ==
    map_unwrap(field, IF field = None THEN Ok(0) ELSE try_into_usize(field.value, width))

\* <Niche as DeserializeWith>::deserialize_with: the archived value is
\* converted back to the native width and unwrapped
Niche_deserialize_with_isize(archived, target) ==
    map_unwrap(archived, IF archived = None THEN Ok(0) ELSE try_into_isize(archived.value, target))
Niche_deserialize_with_usize(archived, target) ==
    map_unwrap(archived, IF archived = None THEN Ok(0) ELSE try_into_usize(archived.value, target))

\* Default::default() of a field type
Default_default(ty) ==
    CASE ty = "u32" -> 0
      [] ty = "string" -> <<>>
      [] ty = "option" -> None

\* <Skip as SerializeWith<F, S>>::serialize_with: Ok(()), the serializer is
\* not used
Skip_serialize_with(field, w) == [w |-> w, result |-> Ok(Unit)]
\* a resolve_with that writes a byte for the skipped field
Skip_resolve_with_written(field, resolver, out) == <<0>>
\* <Skip as ArchiveWith<F>>::resolve_with: an empty body; the place is of
\* the zero-sized type (), so the bytes written are none
Skip_resolve_with(field, resolver, out) == <<>>
\* <Skip as DeserializeWith<(), F, D>>::deserialize_with
Skip_deserialize_with(ty) == Ok(Default_default(ty))

(***************************************************************************)
(* The round trip as a state machine: a live value is archived into a      *)
(* fresh buffer, its root is accessed in place, and it is deserialized.    *)
(***************************************************************************)
VARIABLES rt_value, rt_buf, rt_root, rt_view, rt_result, rt_phase
\* the hashed-container machine: the live container, the bucket array and
\* root written for it, and the lookup in progress
VARIABLES hs_value, hs_buckets, hs_root, hs_phase,
          hs_query, hs_qhash, hs_pos, hs_examined, hs_found

\* the ordered-container machine: the live container, the nodes, resolver and
\* root written for it, the last lookup, the entries the visitor has been
\* called with, and the result of deserializing
VARIABLES bt_value, bt_nodes, bt_resolver, bt_root, bt_phase,
          bt_query, bt_found, bt_visited, bt_fails, bt_result

\* the shared-pointer machine: the live structure (its Arc fields and the
\* heap values they point to), the serialize side, the resolvers, the root,
\* and the deserialize side with the handles returned so far
VARIABLES sp_handles, sp_payload, sp_st, sp_resolvers, sp_root, sp_phase,
          de_st, de_handles, de_last

rt_vars == <<rt_value, rt_buf, rt_root, rt_view, rt_result, rt_phase>>
sp_vars == <<sp_handles, sp_payload, sp_st, sp_resolvers, sp_root, sp_phase,
             de_st, de_handles, de_last>>
bt_vars == <<bt_value, bt_nodes, bt_resolver, bt_root, bt_phase,
             bt_query, bt_found, bt_visited, bt_fails, bt_result>>
hs_vars == <<hs_value, hs_buckets, hs_root, hs_phase,
             hs_query, hs_qhash, hs_pos, hs_examined, hs_found>>

\* the slice-serializer machine: a writer at some position, a slice, and
\* what each branch of the slice serializer returns for them
VARIABLES sl_w, sl_items, sl_ty, sl_copy, sl_general

sl_vars == <<sl_w, sl_items, sl_ty, sl_copy, sl_general>>

\* the relocation machine: the address the buffer of the round trip was
\* copied to, and what is read from it there
VARIABLES rl_base, rl_view

rl_vars == <<rl_base, rl_view>>

\* the two-operation machine: two archive operations, each with its own
\* writer and pool, and whether their steps have been interleaved
VARIABLES pa_ops, pa_mixed

pa_vars == <<pa_ops, pa_mixed>>

\* the box machine: the archived box, the allocator and the pointee as the
\* call will find them, and what the call gave
VARIABLES bx_archived, bx_env, bx_out

bx_vars == <<bx_archived, bx_env, bx_out>>

\* the rejecting-writer machine: the aggregate, the serializer it is given,
\* and what serialize gave
VARIABLES fw_input, fw_st, fw_result

fw_vars == <<fw_input, fw_st, fw_result>>

\* the option machine: an archived option and an option, the results of
\* comparing them either way, an iterator over the archived option and
\* the calls made on it with what they returned
VARIABLES op_a, op_b, op_cmp, op_rev, it_iter, it_calls

op_vars == <<op_a, op_b, op_cmp, op_rev, it_iter, it_calls>>

\* the aggregate machine: a tuple, a fixed-size array or a slice, the writer,
\* the resolvers its element serializes returned, the Place the aggregate is
\* resolved at (None before), the element resolves made so far, and the step
VARIABLES ag_value, ag_w, ag_resolvers, ag_out, ag_log, ag_phase

ag_vars == <<ag_value, ag_w, ag_resolvers, ag_out, ag_log, ag_phase>>

\* the field machine: a field archived through Box, Boxed, BoxedInline, Unsafe
\* (on UnsafeCell or Cell) or Map, the value serialize_with read, the writer
\* before and now, the resolver returned, the position the field was resolved
\* at, the writes made to the cell since serialize_with, and the step
VARIABLES fd_with, fd_field, fd_seen, fd_before, fd_w, fd_result, fd_out, fd_writes, fd_phase

fd_vars == <<fd_with, fd_field, fd_seen, fd_before, fd_w, fd_result, fd_out, fd_writes, fd_phase>>

\* the metadata machine: the build (the widths of the native and of the
\* archived usize), a slice or a str of some length, its archived metadata,
\* the length rebuilt from it, and the step
VARIABLES md_target, md_width, md_kind, md_len, md_archived, md_rebuilt, md_phase

md_vars == <<md_target, md_width, md_kind, md_len, md_archived, md_rebuilt, md_phase>>

\* the wrapper machine: the wrapper and the build it is compiled for, the
\* field, the writer before and after, and what serialize_with,
\* resolve_with and deserialize_with gave
VARIABLES wr_with, wr_target, wr_width, wr_field, wr_before, wr_w,
          wr_result, wr_out, wr_de, wr_phase

wr_vars == <<wr_with, wr_target, wr_width, wr_field, wr_before, wr_w,
             wr_result, wr_out, wr_de, wr_phase>>

\* the machines after the first four
xt_vars == <<sl_vars, wr_vars, rl_vars, pa_vars, bx_vars, fw_vars, op_vars, ag_vars, fd_vars, md_vars>>
vars == <<rt_vars, hs_vars, bt_vars, sp_vars, xt_vars>>
\* the first four machines
core_vars == <<rt_vars, hs_vars, bt_vars, sp_vars>>
\* all machines but one
others_sl == <<core_vars, wr_vars, rl_vars, pa_vars, bx_vars, fw_vars, op_vars, ag_vars, fd_vars, md_vars>>
others_wr == <<core_vars, sl_vars, rl_vars, pa_vars, bx_vars, fw_vars, op_vars, ag_vars, fd_vars, md_vars>>
others_rl == <<hs_vars, bt_vars, sp_vars, sl_vars, wr_vars, pa_vars, bx_vars, fw_vars, op_vars, ag_vars, fd_vars, md_vars>>
others_pa == <<core_vars, sl_vars, wr_vars, rl_vars, bx_vars, fw_vars, op_vars, ag_vars, fd_vars, md_vars>>
others_bx == <<core_vars, sl_vars, wr_vars, rl_vars, pa_vars, fw_vars, op_vars, ag_vars, fd_vars, md_vars>>
others_fw == <<core_vars, sl_vars, wr_vars, rl_vars, pa_vars, bx_vars, op_vars, ag_vars, fd_vars, md_vars>>
others_op == <<core_vars, sl_vars, wr_vars, rl_vars, pa_vars, bx_vars, fw_vars, ag_vars, fd_vars, md_vars>>
others_ag == <<core_vars, sl_vars, wr_vars, rl_vars, pa_vars, bx_vars, fw_vars, op_vars, fd_vars, md_vars>>
others_fd == <<core_vars, sl_vars, wr_vars, rl_vars, pa_vars, bx_vars, fw_vars, op_vars, ag_vars, md_vars>>
others_md == <<core_vars, sl_vars, wr_vars, rl_vars, pa_vars, bx_vars, fw_vars, op_vars, ag_vars, fd_vars>>

\* a machine that takes no part in the specification at hand
RtIdle ==
    /\ rt_value = None /\ rt_buf = <<>> /\ rt_root = 0
    /\ rt_view = None /\ rt_result = None /\ rt_phase = "idle"
SpIdle ==
    /\ sp_handles = <<>> /\ sp_payload = <<>> /\ sp_st = None /\ sp_resolvers = <<>>
    /\ sp_root = 0 /\ sp_phase = "idle" /\ de_st = None /\ de_handles = <<>> /\ de_last = None
BtIdle ==
    /\ bt_value = None /\ bt_nodes = <<>> /\ bt_resolver = None /\ bt_root = None
    /\ bt_phase = "idle" /\ bt_query = None /\ bt_found = None /\ bt_visited = <<>>
    /\ bt_fails = {} /\ bt_result = None
SlIdle ==
    /\ sl_w = <<>> /\ sl_items = <<>> /\ sl_ty = "idle" /\ sl_copy = None /\ sl_general = None
RlIdle == rl_base = 0 /\ rl_view = None
PaIdle == pa_ops = <<>> /\ pa_mixed = FALSE
BxIdle == bx_archived = None /\ bx_env = None /\ bx_out = None
FwIdle == fw_input = None /\ fw_st = None /\ fw_result = None
OpIdle ==
    /\ op_a = None /\ op_b = None /\ op_cmp = None /\ op_rev = None
    /\ it_iter = None /\ it_calls = <<>>
AgIdle == ag_value = None /\ ag_w = <<>> /\ ag_resolvers = <<>> /\ ag_out = None /\ ag_log = <<>> /\ ag_phase = "idle"
FdIdle == fd_with = "idle" /\ fd_field = None /\ fd_seen = None /\ fd_before = <<>> /\ fd_w = <<>> /\ fd_result = None /\ fd_out = None /\ fd_writes = 0 /\ fd_phase = "idle"
MdIdle == md_target = 0 /\ md_width = 0 /\ md_kind = "idle" /\ md_len = 0 /\ md_archived = <<>> /\ md_rebuilt = None /\ md_phase = "idle"
WrIdle ==
    /\ wr_with = "idle" /\ wr_target = 0 /\ wr_width = 0 /\ wr_field = None
    /\ wr_before = <<>> /\ wr_w = <<>> /\ wr_result = None /\ wr_out = None
    /\ wr_de = None /\ wr_phase = "idle"
HsIdle ==
    /\ hs_value = None /\ hs_buckets = <<>> /\ hs_root = None /\ hs_phase = "idle"
    /\ hs_query = 0 /\ hs_qhash = 0 /\ hs_pos = 0 /\ hs_examined = 0 /\ hs_found = None

RtInit ==
    /\ rt_value \in Values
    /\ rt_buf = <<>>
    /\ rt_root = 0
    /\ rt_view = None
    /\ rt_result = None
    /\ rt_phase = "live"

\* to_bytes(&value)
ToBytes ==
    /\ rt_phase = "live"
    /\ rt_buf' = to_bytes(rt_value)
    /\ rt_phase' = "serialized"
    /\ UNCHANGED <<rt_value, rt_root, rt_view, rt_result, hs_vars, bt_vars, sp_vars, xt_vars>>

\* access_unchecked::<Archived<T>>(&bytes), and a read of it in place
Access ==
    /\ rt_phase = "serialized"
    /\ rt_root' = access_unchecked(rt_buf, archived_size(rt_value))
    /\ rt_view' = Some([data |-> read_in_place(rt_buf, rt_root', rt_value),
                         eq |-> archived_eq(rt_buf, rt_root', rt_value),
                         len |-> archived_len(rt_buf, rt_root', rt_value)])
    /\ rt_phase' = "accessed"
    /\ UNCHANGED <<rt_value, rt_buf, rt_result, hs_vars, bt_vars, sp_vars, xt_vars>>

\* deserialize::<T, _, _>(archived, &mut ()); SliceVec cannot be deserialized
Deserialize ==
    /\ rt_phase = "accessed"
    /\ rt_value.kind # "slice_vec"
    /\ rt_result' = deserialize(rt_buf, rt_root, rt_value)
    /\ rt_phase' = "deserialized"
    /\ UNCHANGED <<rt_value, rt_buf, rt_root, rt_view, hs_vars, bt_vars, sp_vars, xt_vars>>

RtNext == ToBytes \/ Access \/ Deserialize

(***************************************************************************)
(* Relocation: the buffer of the round trip is copied to another address   *)
(* of a larger memory and read there.  A position in the memory is an      *)
(* address; the buffer starts at `base`, a multiple of its alignment.      *)
(***************************************************************************)
MaxBase == 2

\* the memory with the buffer copied to address `base`
relocate(buf, base) == [i \in 1..base |-> 0] \o buf

\* access_unchecked on the bytes at their new address, and a read in place;
\* the containers, whose buffer is counted in archived objects, have no
\* byte addresses to move
Relocate ==
    /\ rt_view # None
    /\ rl_view = None
    /\ rt_value.kind \notin ContainerKinds
    /\ \E k \in 1..MaxBase :
          LET base == 64 * k
              mem == relocate(rt_buf, base)
              root == base + access_unchecked(rt_buf, archived_size(rt_value))
          IN  /\ rl_base' = base
              /\ rl_view' = Some([data |-> read_in_place(mem, root, rt_value),
                                   eq |-> archived_eq(mem, root, rt_value),
                                   len |-> archived_len(mem, root, rt_value)])
    /\ UNCHANGED <<rt_vars, others_rl>>

RlNext == RtNext \/ Relocate

(***************************************************************************)
(* The hashed container as a state machine: a live HashSet / HashMap is    *)
(* serialized (the bucket array is laid out), resolved (the root is        *)
(* written), and then looked up in place, one bucket per step.             *)
(***************************************************************************)
\* the keys looked up: every inserted key, and at least one that is absent
QueryKeys(v) == 1..((IF len_of(v) > MaxKey THEN len_of(v) ELSE MaxKey) + 1)

HsInit ==
    /\ hs_value \in HashValues
    /\ hs_buckets = <<>>
    /\ hs_root = None
    /\ hs_phase = "live"
    /\ hs_query = 0 /\ hs_qhash = 0 /\ hs_pos = 0 /\ hs_examined = 0 /\ hs_found = None

\* Serialize::serialize of the container: the table is laid out in the buffer
HsSerialize ==
    /\ hs_phase = "live"
    /\ hs_buckets' = IF hs_value.kind = "hash_set" THEN HashSet_serialize(hs_value)
                     ELSE HashMap_serialize(hs_value)
    /\ hs_phase' = "serialized"
    /\ UNCHANGED <<hs_value, hs_root, hs_query, hs_qhash, hs_pos, hs_examined, hs_found, rt_vars, bt_vars, sp_vars, xt_vars>>

\* Archive::resolve of the container: the root is written
HsResolve ==
    /\ hs_phase = "serialized"
    /\ hs_root' = IF hs_value.kind = "hash_set" THEN HashSet_resolve(hs_value)
                  ELSE HashMap_resolve(hs_value)
    /\ hs_phase' = "resolved"
    /\ UNCHANGED <<hs_value, hs_buckets, hs_query, hs_qhash, hs_pos, hs_examined, hs_found, rt_vars, bt_vars, sp_vars, xt_vars>>

\* ArchivedHashMap::get, first part: an empty table answers at once, else the
\* probe starts at the home bucket hash(q) mod capacity
HsGet(q, h) ==
    /\ hs_phase \in {"resolved", "done"}
    /\ q \in keys_of(hs_value) => h = hs_value.hash[q]
    /\ hs_query' = q
    /\ hs_qhash' = h
    /\ hs_examined' = 0
    /\ hs_found' = None
    /\ IF hs_root.len = 0
       THEN hs_phase' = "done" /\ hs_pos' = 0
       ELSE hs_phase' = "probing" /\ hs_pos' = h % hs_root.cap
    /\ UNCHANGED <<hs_value, hs_buckets, hs_root, rt_vars, bt_vars, sp_vars, xt_vars>>

\* ArchivedHashMap::get, one turn of the probe loop: the bucket at hs_pos is
\* examined; an empty bucket ends the lookup with absence, an equal key with
\* the entry, anything else moves on to the next bucket.  The count of
\* examined buckets stops at capacity + 1.
HsProbe ==
    /\ hs_phase = "probing"
    /\ hs_examined <= hs_root.cap
    /\ hs_examined' = hs_examined + 1
    /\ LET b == hs_buckets[hs_pos + 1]
       IN  IF b.ctrl = "empty"
           THEN hs_phase' = "done" /\ hs_found' = None /\ hs_pos' = hs_pos
           ELSE IF b.key = hs_query
           THEN hs_phase' = "done" /\ hs_found' = Some(b) /\ hs_pos' = hs_pos
           ELSE hs_phase' = "probing" /\ hs_found' = None
                /\ hs_pos' = (hs_pos + 1) % hs_root.cap
    /\ UNCHANGED <<hs_value, hs_buckets, hs_root, hs_query, hs_qhash, rt_vars, bt_vars, sp_vars, xt_vars>>

HsNext ==
    \/ HsSerialize
    \/ HsResolve
    \/ \E q \in QueryKeys(hs_value), h \in 0..MaxHash : HsGet(q, h)
    \/ HsProbe

(***************************************************************************)
(* The ordered container as a state machine: a live BTreeMap / BTreeSet is *)
(* serialized (the nodes are written), resolved (the root is written),     *)
(* and then looked up in place, visited entry by entry, or deserialized.   *)
(***************************************************************************)
\* every container over keys of 1..MaxKey with any values, and every set
\* and map over keys of 1..MaxTreeKey
\* the keys looked up: below, among and above the keys that can be inserted
TreeQueryKeys == 0..(MaxTreeKey + 1)

\* the sets of entries that fail to deserialize: none, one or two
FailSets(K) == {F \in SUBSET K : Cardinality(F) <= 2}

BtInit ==
    /\ bt_value \in TreeValues
    /\ bt_nodes = <<>> /\ bt_resolver = None /\ bt_root = None
    /\ bt_phase = "live" /\ bt_query = None /\ bt_found = None /\ bt_visited = <<>>
    /\ bt_fails = {} /\ bt_result = None

\* Serialize::serialize of the container
BtSerialize ==
    /\ bt_phase = "live"
    /\ LET s == IF bt_value.kind = "btree_set" THEN BTreeSet_serialize(bt_value)
                ELSE BTreeMap_serialize(bt_value)
       IN  bt_nodes' = s.nodes /\ bt_resolver' = s.resolver
    /\ bt_phase' = "serialized"
    /\ UNCHANGED <<bt_value, bt_root, bt_query, bt_found, bt_visited, bt_fails, bt_result,
                   rt_vars, hs_vars, sp_vars, xt_vars>>

\* Archive::resolve of the container
BtResolve ==
    /\ bt_phase = "serialized"
    /\ bt_root' = IF bt_value.kind = "btree_set" THEN BTreeSet_resolve(bt_value, bt_resolver)
                  ELSE BTreeMap_resolve(bt_value, bt_resolver)
    /\ bt_phase' = "resolved"
    /\ UNCHANGED <<bt_value, bt_nodes, bt_resolver, bt_query, bt_found, bt_visited, bt_fails,
                   bt_result, rt_vars, hs_vars, sp_vars, xt_vars>>

\* archived.get(&q), read in place
BtGet(q) ==
    /\ bt_phase \in {"resolved", "got"}
    /\ bt_query' = Some(q)
    /\ bt_found' = BTree_get(bt_nodes, bt_root, q)
    /\ bt_phase' = "got"
    /\ UNCHANGED <<bt_value, bt_nodes, bt_resolver, bt_root, bt_visited, bt_fails, bt_result,
                   rt_vars, hs_vars, sp_vars, xt_vars>>

\* archived.visit(f): the next call of the visitor
BtVisitStep ==
    /\ bt_phase \in {"resolved", "visiting"}
    /\ Len(bt_visited) < Len(BTree_visit(bt_nodes, bt_root))
    /\ bt_visited' = Append(bt_visited, BTree_visit(bt_nodes, bt_root)[Len(bt_visited) + 1])
    /\ bt_phase' = "visiting"
    /\ UNCHANGED <<bt_value, bt_nodes, bt_resolver, bt_root, bt_query, bt_found, bt_fails,
                   bt_result, rt_vars, hs_vars, sp_vars, xt_vars>>

\* archived.visit(f): the visit returns after the last entry
BtVisitEnd ==
    /\ bt_phase \in {"resolved", "visiting"}
    /\ Len(bt_visited) = Len(BTree_visit(bt_nodes, bt_root))
    /\ bt_phase' = "visited"
    /\ UNCHANGED <<bt_value, bt_nodes, bt_resolver, bt_root, bt_query, bt_found, bt_visited,
                   bt_fails, bt_result, rt_vars, hs_vars, sp_vars, xt_vars>>

\* deserialize of the archived container, with the entries in F failing;
\* the calls of its visitor are recorded
BtDeserialize(F) ==
    /\ bt_phase = "resolved"
    /\ bt_fails' = F
    /\ bt_result' = IF bt_value.kind = "btree_set"
                    THEN BTreeSet_deserialize(bt_nodes, bt_root, F)
                    ELSE BTreeMap_deserialize(bt_nodes, bt_root, F)
    /\ bt_visited' = visit_deserialize(<<>>, BTree_visit(bt_nodes, bt_root), F, <<>>).calls
    /\ bt_phase' = "deserialized"
    /\ UNCHANGED <<bt_value, bt_nodes, bt_resolver, bt_root, bt_query, bt_found,
                   rt_vars, hs_vars, sp_vars, xt_vars>>

BtNext ==
    \/ BtSerialize
    \/ BtResolve
    \/ \E q \in TreeQueryKeys : BtGet(q)
    \/ BtVisitStep
    \/ BtVisitEnd
    \/ \E F \in FailSets(bt_value.keys) : BtDeserialize(F)

(***************************************************************************)
(* Shared pointers as a state machine: a structure whose fields are Arcs   *)
(* is serialized field by field with one sharing pool, its root is         *)
(* resolved, and the archived pointers are then deserialized in any order  *)
(* with one pooling deserializer; handles are written through and dropped. *)
(***************************************************************************)
\* the position of field i of the root structure (ArchivedRc is a RelPtr)
field_at(root, i) == root + (i - 1) * size_of("box")

\* the archived offset field i of the root points to, and the pointee there
archived_address(i) == RelPtr_target(sp_st.w, field_at(sp_root, i))
archived_pointee(i) == deserialize_elem(sp_st.w, "i32", archived_address(i))

\* the values of the shared pointees: every heap value has its own, positive
\* or negative; and the value a write through a handle stores
Payloads(ids) == {[id \in ids |-> 10 * id], [id \in ids |-> 0 - id]}
MutateVals == {70000}

\* the heap values are numbered in the order the fields first point to them
\* (which address a value has does not matter, only which fields share it)
HandleShapes ==
    UNION {{h \in [1..n -> 1..n] :
              \A i \in 1..n : h[i] = 1 \/ \E j \in 1..(i - 1) : h[j] >= h[i] - 1}
           : n \in 1..MaxHandles}

SpInit ==
    /\ sp_handles \in HandleShapes
    /\ sp_payload \in Payloads({sp_handles[i] : i \in DOMAIN sp_handles})
    /\ sp_st = [w |-> <<>>, pool |-> <<>>, written |-> <<>>]
    /\ sp_resolvers = <<>>
    /\ sp_root = 0
    /\ sp_phase = "live"
    /\ de_st = [pool |-> <<>>, heap |-> <<>>]
    /\ de_handles = [i \in DOMAIN sp_handles |-> None]
    /\ de_last = None

\* Serialize::serialize of the next Arc field of the structure
SpSerialize ==
    /\ sp_phase = "live"
    /\ LET i == Len(sp_resolvers) + 1
           r == Arc_serialize(sp_st, sp_handles[i], sp_payload[sp_handles[i]])
       IN  /\ sp_st' = r.st
           /\ sp_resolvers' = Append(sp_resolvers, r.resolver)
           /\ sp_phase' = IF i = Len(sp_handles) THEN "serialized" ELSE "live"
    /\ UNCHANGED <<sp_handles, sp_payload, sp_root, de_st, de_handles, de_last,
                   rt_vars, hs_vars, bt_vars, xt_vars>>

\* the root: the writer is aligned and every field is resolved at its place
SpResolve ==
    /\ sp_phase = "serialized"
    /\ LET aligned == align_for(sp_st.w, "box")
           root == pos(aligned)
       IN  /\ sp_root' = root
           /\ sp_st' = [sp_st EXCEPT !.w = write(aligned,
                  Concat([i \in DOMAIN sp_resolvers |->
                            Arc_resolve(sp_resolvers[i], field_at(root, i))]))]
    /\ sp_phase' = "resolved"
    /\ UNCHANGED <<sp_handles, sp_payload, sp_resolvers, de_st, de_handles, de_last,
                   rt_vars, hs_vars, bt_vars, xt_vars>>

\* Deserialize::deserialize of the archived pointer of field i; with `fail`
\* the pointee's own deserialize fails
SpDeserialize(i, fail) ==
    /\ sp_phase = "resolved"
    /\ de_handles[i] = None
    /\ fail => Cardinality({p \in DOMAIN de_st.heap : ~de_st.heap[p].init}) < MaxFails
    /\ LET r == Arc_deserialize(de_st, archived_address(i), archived_pointee(i), fail)
       IN  /\ de_st' = r.de
           /\ de_last' = Some([address |-> archived_address(i), result |-> r.result])
           /\ de_handles' = IF r.result.tag = "Ok"
                            THEN [de_handles EXCEPT ![i] = Some(r.result.value)]
                            ELSE de_handles
    /\ UNCHANGED <<sp_handles, sp_payload, sp_st, sp_resolvers, sp_root, sp_phase,
                   rt_vars, hs_vars, bt_vars, xt_vars>>

\* a write through the handle of field i (an interior-mutable pointee)
SpMutate(i, x) ==
    /\ sp_phase = "resolved"
    /\ de_handles[i].tag = "Some"
    /\ de_st.heap[de_handles[i].value].alive
    /\ de_st' = [de_st EXCEPT !.heap[de_handles[i].value].value = x]
    /\ UNCHANGED <<sp_handles, sp_payload, sp_st, sp_resolvers, sp_root, sp_phase,
                   de_handles, de_last, rt_vars, hs_vars, bt_vars, xt_vars>>

\* the handle of field i is dropped
SpDropHandle(i) ==
    /\ sp_phase = "resolved"
    /\ de_handles[i].tag = "Some"
    /\ de_st.heap[de_handles[i].value].alive
    /\ de_st' = [de_st EXCEPT !.heap = Arc_drop(@, de_handles[i].value)]
    /\ de_handles' = [de_handles EXCEPT ![i] = [tag |-> "Dropped"]]
    /\ UNCHANGED <<sp_handles, sp_payload, sp_st, sp_resolvers, sp_root, sp_phase,
                   de_last, rt_vars, hs_vars, bt_vars, xt_vars>>

SpNext ==
    \/ SpSerialize
    \/ SpResolve
    \/ \E i \in DOMAIN sp_handles, fail \in BOOLEAN : SpDeserialize(i, fail)
    \/ \E i \in DOMAIN sp_handles, x \in MutateVals : SpMutate(i, x)
    \/ \E i \in DOMAIN sp_handles : SpDropHandle(i)

(***************************************************************************)
(* The slice serializer as a state machine: for a writer at any position   *)
(* and a slice of copy-optimized elements, each branch of                  *)
(* <[T] as SerializeUnsized>::serialize_unsized is run on its own.         *)
(***************************************************************************)
\* the byte the writer holds before the slice is serialized
FillByte == {170}

SlInit ==
    /\ sl_w \in UNION {[1..k -> FillByte] : k \in 0..MaxStart}
    /\ sl_ty \in {"u8", "i32"}
    /\ sl_items \in SeqsUpTo(IF sl_ty = "u8" THEN U8Vals ELSE I32Vals, MaxLen)
    /\ sl_copy = None
    /\ sl_general = None

\* the branch taken when T::COPY_OPTIMIZATION is enabled
SlCopy ==
    /\ sl_copy = None
    /\ COPY_OPTIMIZATION(sl_ty)
    /\ sl_copy' = Some(Slice_serialize_copy(sl_w, sl_items, sl_ty))
    /\ UNCHANGED <<sl_w, sl_items, sl_ty, sl_general, others_sl>>

\* the branch taken otherwise
SlGeneral ==
    /\ sl_general = None
    /\ sl_general' = Some(Slice_serialize_general(sl_w, sl_items, sl_ty))
    /\ UNCHANGED <<sl_w, sl_items, sl_ty, sl_copy, others_sl>>

SlNext == SlCopy \/ SlGeneral

(***************************************************************************)
(* The with-wrappers as a state machine: a field under Niche or Skip is    *)
(* serialized, resolved and deserialized, in a build of some target and    *)
(* archived pointer width.                                                 *)
(***************************************************************************)
\* the fields a Skip wrapper is put on, each with the type it has
SkipFields ==
    {[ty |-> "u32", int |-> v] : v \in {0, 7, 70000}}
    \cup {[ty |-> "string", bytes |-> v] : v \in {<<>>, <<104, 105>>}}
    \cup {[ty |-> "option", opt |-> v] : v \in {None, Some(7)}}

WrInit ==
    /\ wr_with \in {"NicheIsize", "NicheUsize", "Skip"}
    /\ wr_target \in TargetWidths
    /\ wr_width \in PointerWidths
    /\ wr_field \in CASE wr_with = "NicheIsize" ->
                         {None} \cup {Some(x) : x \in NonZeroIsizeVals(wr_target)}
                      [] wr_with = "NicheUsize" ->
                         {None} \cup {Some(x) : x \in NonZeroUsizeVals(wr_target)}
                      [] wr_with = "Skip" -> SkipFields
    /\ wr_before \in UNION {[1..k -> FillByte] : k \in 0..MaxLen}
    /\ wr_w = wr_before
    /\ wr_result = None
    /\ wr_out = None
    /\ wr_de = None
    /\ wr_phase = "live"

\* W::serialize_with(field, serializer)
WrSerialize ==
    /\ wr_phase = "live"
    /\ LET r == IF wr_with = "Skip" THEN Skip_serialize_with(wr_field, wr_w)
                 ELSE Niche_serialize_with(wr_field, wr_w)
       IN  /\ wr_w' = r.w
           /\ wr_result' = Some(r.result)
    /\ wr_phase' = "serialized"
    /\ UNCHANGED <<wr_with, wr_target, wr_width, wr_field, wr_before, wr_out, wr_de, others_wr>>

\* W::resolve_with(field, resolver, out), called with the resolver that
\* serialize_with returned
WrResolve ==
    /\ wr_phase = "serialized"
    /\ wr_result.value.tag = "Ok"
    /\ LET out == CASE wr_with = "NicheIsize" -> Niche_resolve_with_isize(wr_field, wr_width)
                     [] wr_with = "NicheUsize" -> Niche_resolve_with_usize(wr_field, wr_width)
                     [] wr_with = "Skip" ->
                        Some(Skip_resolve_with(wr_field, wr_result.value.value, pos(wr_w)))
       IN  /\ wr_out' = out
           /\ wr_phase' = IF out = Panic THEN "panicked" ELSE "resolved"
           /\ wr_w' = IF wr_with = "Skip" /\ out # Panic THEN write(wr_w, out.value) ELSE wr_w
    /\ UNCHANGED <<wr_with, wr_target, wr_width, wr_field, wr_before, wr_result, wr_de, others_wr>>

\* W::deserialize_with(archived, deserializer)
WrDeserialize ==
    /\ wr_phase = "resolved"
    /\ wr_de' = CASE wr_with = "NicheIsize" -> Niche_deserialize_with_isize(wr_out, wr_target)
                  [] wr_with = "NicheUsize" -> Niche_deserialize_with_usize(wr_out, wr_target)
                  [] wr_with = "Skip" -> Skip_deserialize_with(wr_field.ty)
    /\ wr_phase' = "deserialized"
    /\ UNCHANGED <<wr_with, wr_target, wr_width, wr_field, wr_before, wr_w, wr_result, wr_out, others_wr>>

WrNext == WrSerialize \/ WrResolve \/ WrDeserialize

(***************************************************************************)
(* Two independent archive operations as a state machine: each step is a   *)
(* step of one of them, in any order.                                      *)
(***************************************************************************)
PaInit ==
    /\ pa_ops \in {<<Operation_new(h1, p1), Operation_new(h2, p2)>> :
                      h1 \in HandleShapes, h2 \in HandleShapes,
                      p1 \in {[id \in 1..MaxHandles |-> 10 * id]},
                      p2 \in {[id \in 1..MaxHandles |-> 0 - id]}}
    /\ pa_mixed = FALSE

\* one step of operation k
PaStep(k) ==
    /\ pa_ops[k].phase # "done"
    /\ pa_ops' = [i \in 1..2 |-> IF i = k THEN Operation_step(pa_ops, k) ELSE pa_ops[i]]
    /\ pa_mixed' = (pa_mixed \/ (pa_ops[3 - k].phase # "done"
                                   /\ pa_ops[3 - k] # Operation_new(pa_ops[3 - k].handles,
                                                                    pa_ops[3 - k].payload)))
    /\ UNCHANGED others_pa

PaNext == \E k \in 1..2 : PaStep(k)

(***************************************************************************)
(* Deserializing an archived Box as a state machine: an archived box, an   *)
(* allocator that serves the request or not, and a pointee whose elements  *)
(* deserialize or not.                                                     *)
(***************************************************************************)
\* a length for which a slice of i32 has no layout
HugeMetadata == {2147483647}

ArchivedBoxes ==
    {[kind |-> "sized", metadata |-> 1, items |-> <<x>>] : x \in I32Vals}
    \cup {[kind |-> "slice", metadata |-> Len(xs), items |-> xs] : xs \in SeqsUpTo(I32Vals, MaxLen)}
    \cup {[kind |-> "str", metadata |-> Len(xs), items |-> xs] : xs \in SeqsUpTo(U8Vals, MaxLen)}
    \cup {[kind |-> "slice", metadata |-> n, items |-> <<>>] : n \in HugeMetadata}

BxInit ==
    /\ bx_archived \in ArchivedBoxes
    /\ bx_env \in [alloc_fails : BOOLEAN, fail_at : 0..MaxLen, ub : {"crash", "carries on"}]
    /\ bx_out = None

\* archived.deserialize(deserializer)
BxDeserialize ==
    /\ bx_out = None
    /\ bx_out' = Some(ArchivedBox_deserialize(bx_archived, bx_env.alloc_fails,
                                               bx_env.fail_at, bx_env.ub))
    /\ UNCHANGED <<bx_archived, bx_env, others_bx>>

BxNext == BxDeserialize

(***************************************************************************)
(* Serializing an aggregate through a rejecting writer as a state machine. *)
(***************************************************************************)
\* the values of the elements
ElemVals == {10, -1}

FwInit ==
    /\ fw_input \in
          [kind : {"slice", "array"}, ty : {"i32", "box"}, items : SeqsUpTo(ElemVals, MaxLen)]
          \cup [kind : {"tuple"}, ty : {"i32", "box"}, items : [1..2 -> ElemVals]]
    /\ fw_st \in {[w |-> [i \in 1..k |-> 0], calls |-> 0, fail_at |-> f,
                     events |-> <<>>, rejected |-> None] :
                      k \in 0..1, f \in 0..(3 * MaxLen + 1)}
    /\ fw_result = None

\* value.serialize(serializer) / value.serialize_unsized(serializer)
FwSerialize ==
    /\ fw_result = None
    /\ LET r == CASE fw_input.kind = "slice" ->
                        Slice_try_serialize_unsized(fw_st, fw_input.items, fw_input.ty)
                   [] fw_input.kind = "tuple" ->
                        Tuple_try_serialize(fw_st, fw_input.items, fw_input.ty)
                   [] fw_input.kind = "array" ->
                        Array_try_serialize(fw_st, fw_input.items, fw_input.ty)
       IN  fw_st' = r.st /\ fw_result' = Some(r.result)
    /\ UNCHANGED <<fw_input, others_fw>>

FwNext == FwSerialize

(***************************************************************************)
(* ArchivedOption as a state machine: an archived option is compared with  *)
(* an option, either way, and iterated with next and next_back.            *)
(***************************************************************************)
MaxCalls == 3

\* the elements: the values of the tests, and one that is unordered
Elems == {[v |-> 1], [v |-> 2], [v |-> 42], [nan |-> TRUE]}

\* a comparison not made yet, an iterator not created yet
Unset == [tag |-> "Unset"]

OpInit ==
    /\ op_a \in {None} \cup {Some(x) : x \in Elems}
    /\ op_b \in {None} \cup {Some(x) : x \in Elems}
    /\ op_cmp = Unset
    /\ op_rev = Unset
    /\ it_iter = Unset
    /\ it_calls = <<>>

\* a.partial_cmp(&b)
OpCompare ==
    /\ op_cmp = Unset
    /\ op_cmp' = ArchivedOption_partial_cmp(op_a, op_b)
    /\ UNCHANGED <<op_a, op_b, op_rev, it_iter, it_calls, others_op>>

\* b.partial_cmp(&a)
OpCompareBack ==
    /\ op_rev = Unset
    /\ op_rev' = Option_partial_cmp(op_b, op_a)
    /\ UNCHANGED <<op_a, op_b, op_cmp, it_iter, it_calls, others_op>>

\* a.iter()
OpIter ==
    /\ it_iter = Unset
    /\ it_iter' = ArchivedOption_iter(op_a)
    /\ UNCHANGED <<op_a, op_b, op_cmp, op_rev, it_calls, others_op>>

\* iter.next()
ItNext ==
    /\ it_iter # Unset
    /\ Len(it_calls) < MaxCalls
    /\ LET r == Iter_next(it_iter)
       IN  /\ it_iter' = r.iter
           /\ it_calls' = Append(it_calls, [call |-> "next", result |-> r.result])
    /\ UNCHANGED <<op_a, op_b, op_cmp, op_rev, others_op>>

\* iter.next_back()
ItNextBack ==
    /\ it_iter # Unset
    /\ Len(it_calls) < MaxCalls
    /\ LET r == Iter_next_back(it_iter)
       IN  /\ it_iter' = r.iter
           /\ it_calls' = Append(it_calls, [call |-> "next_back", result |-> r.result])
    /\ UNCHANGED <<op_a, op_b, op_cmp, op_rev, others_op>>

OpNext == OpCompare \/ OpCompareBack \/ OpIter \/ ItNext \/ ItNextBack

(***************************************************************************)
(* The specifications.                                                     *)
(***************************************************************************)
\* the machines after the first four, all idle
XtIdle == SlIdle /\ WrIdle /\ RlIdle /\ PaIdle /\ BxIdle /\ FwIdle /\ OpIdle /\ AgIdle /\ FdIdle /\ MdIdle

Init == RtInit /\ HsIdle /\ BtIdle /\ SpIdle /\ XtIdle
Next == RtNext
Spec == Init /\ [][Next]_vars

InitHash == HsInit /\ RtIdle /\ BtIdle /\ SpIdle /\ XtIdle
SpecHash == InitHash /\ [][HsNext]_vars
\* a lookup that has started runs on: the probe loop is straight-line code
\* that nothing suspends
SpecHashFair == SpecHash /\ WF_vars(HsProbe)

InitTree == BtInit /\ RtIdle /\ HsIdle /\ SpIdle /\ XtIdle
SpecTree == InitTree /\ [][BtNext]_vars

InitShared == SpInit /\ RtIdle /\ HsIdle /\ BtIdle /\ XtIdle

\* the first four machines, all idle
CoreIdle == RtIdle /\ HsIdle /\ BtIdle /\ SpIdle

InitSlice == SlInit /\ CoreIdle /\ WrIdle /\ RlIdle /\ PaIdle /\ BxIdle /\ FwIdle /\ OpIdle /\ AgIdle /\ FdIdle /\ MdIdle
SpecSlice == InitSlice /\ [][SlNext]_vars

InitWith == WrInit /\ CoreIdle /\ SlIdle /\ RlIdle /\ PaIdle /\ BxIdle /\ FwIdle /\ OpIdle /\ AgIdle /\ FdIdle /\ MdIdle

InitPair == PaInit /\ CoreIdle /\ SlIdle /\ WrIdle /\ RlIdle /\ BxIdle /\ FwIdle /\ OpIdle /\ AgIdle /\ FdIdle /\ MdIdle

InitBox == BxInit /\ CoreIdle /\ SlIdle /\ WrIdle /\ RlIdle /\ PaIdle /\ FwIdle /\ OpIdle /\ AgIdle /\ FdIdle /\ MdIdle

InitWriter == FwInit /\ CoreIdle /\ SlIdle /\ WrIdle /\ RlIdle /\ PaIdle /\ BxIdle /\ OpIdle /\ AgIdle /\ FdIdle /\ MdIdle

InitOption == OpInit /\ CoreIdle /\ SlIdle /\ WrIdle /\ RlIdle /\ PaIdle /\ BxIdle /\ FwIdle /\ AgIdle /\ FdIdle /\ MdIdle
SpecOption == InitOption /\ [][OpNext]_vars
SpecWriter == InitWriter /\ [][FwNext]_vars
SpecBox == InitBox /\ [][BxNext]_vars
SpecPair == InitPair /\ [][PaNext]_vars

SpecRelocate == Init /\ [][RlNext]_vars
SpecWith == InitWith /\ [][WrNext]_vars
SpecShared == InitShared /\ [][SpNext]_vars

(***************************************************************************)
(* The properties of the design, each with a state in which its case       *)
(* happens.                                                                *)
(***************************************************************************)
\* C1 (round trip): for every supported value (byte strings, ArrayVec and
\* TinyVec, hash sets and maps, ordered maps and sets, boxes, tuples,
\* arrays), serializing it into a fresh buffer, accessing the root and
\* deserializing it returns Ok with a value equal to the original under the
\* type's own equality.
RoundTrip ==
    rt_phase = "deserialized" => rt_result = Ok(content_of(rt_value))

\* an ArrayVec of the largest length has gone through the round trip
RoundTripDone ==
    /\ rt_phase = "deserialized"
    /\ rt_value.kind = "array_vec"
    /\ Len(rt_value.items) = MaxLen
    /\ rt_result.tag = "Ok"

\* C2 (zero-copy equivalence): what is read in place from the buffer that
\* serializing a value produced, with no deserialize step, equals the value;
\* an archived vector's slice has the length and the elements of the source
\* slice, in the same order.
ZeroCopyEquivalence ==
    rt_phase \in {"accessed", "deserialized"} =>
        /\ rt_view.value.eq
        /\ rt_value.kind \in VecKinds =>
              /\ rt_view.value.len = Len(rt_value.items)
              /\ rt_view.value.data = rt_value.items
        /\ rt_value.kind \in HashKinds => rt_view.value.len = len_of(rt_value)
        /\ rt_value.kind \in TreeKinds => rt_view.value.len = Cardinality(rt_value.keys)

\* a byte string of two or more bytes has been accessed in place
ZeroCopyRead ==
    /\ rt_phase = "accessed"
    /\ rt_value.kind = "bytes"
    /\ Len(rt_value.items) >= 2
    /\ rt_view.value.len = Len(rt_value.items)

\* what is read through the handle of field i
read_through(i) == de_st.heap[de_handles[i].value].value

\* C3 (shared-pointer identity): after a structure holding shared pointers
\* (triomphe Arc) to the same heap value is serialized and deserialized with
\* one pool, the handles of those pointers refer to one and the same live
\* allocation, so that what is written through one is read through the
\* others.
SharedPointerIdentity ==
    \A i, j \in DOMAIN de_handles :
        (/\ sp_handles[i] = sp_handles[j]
         /\ de_handles[i].tag = "Some"
         /\ de_handles[j].tag = "Some") =>
            /\ de_handles[i].value = de_handles[j].value
            /\ de_st.heap[de_handles[i].value].alive
            /\ de_st.heap[de_handles[i].value].init
            /\ read_through(i) = read_through(j)

\* two handles to one heap value are back, and a write went through one
SharedHandlesMutated ==
    \E i, j \in DOMAIN de_handles :
        /\ i # j
        /\ sp_handles[i] = sp_handles[j]
        /\ de_handles[i].tag = "Some"
        /\ de_handles[j].tag = "Some"
        /\ read_through(i) \in MutateVals

\* the source identities among the pointers serialized so far
serialized_ids == {sp_handles[i] : i \in 1..Len(sp_resolvers)}

\* C4 (shared payload written once): within one serialize operation, after
\* any number of shared-pointer serializations, the buffer holds exactly one
\* copy of the payload for each distinct source identity: the first
\* occurrence writes it and records identity -> offset, every later one
\* writes nothing and archives a pointer to the recorded offset.
SharedPayloadWrittenOnce ==
    sp_phase \in {"live", "serialized"} =>
        /\ \A id \in serialized_ids :
              Cardinality({k \in DOMAIN sp_st.written : sp_st.written[k].id = id}) = 1
        /\ Len(sp_st.written) = Cardinality(serialized_ids)
        /\ Len(sp_st.w) = size_of("i32") * Cardinality(serialized_ids)
        /\ DOMAIN sp_st.pool = serialized_ids
        /\ \A i \in DOMAIN sp_resolvers :
              /\ sp_resolvers[i].pos = sp_st.pool[sp_handles[i]]
              /\ deserialize_elem(sp_st.w, "i32", sp_resolvers[i].pos)
                    = sp_payload[sp_handles[i]]

\* three pointers, two of them to one heap value, have been serialized
SharedPayloadSerialized ==
    /\ sp_phase = "serialized"
    /\ Len(sp_resolvers) = 3
    /\ Cardinality(serialized_ids) = 2
    /\ Len(sp_st.written) = 2

\* C5 (no half-initialized pool entry): when the pointee of a shared pointer
\* fails to deserialize, the error is returned and the pool holds no entry
\* for that archived offset; an entry is registered only after the pointee
\* was deserialized, so no lookup returns an allocation whose contents were
\* not fully written.
NoHalfInitializedPoolEntry ==
    sp_phase = "resolved" =>
        /\ \A address \in DOMAIN de_st.pool : de_st.heap[de_st.pool[address]].init
        /\ (de_last.tag = "Some" /\ de_last.value.result.tag = "Err") =>
              de_last.value.address \notin DOMAIN de_st.pool
        /\ \A i \in DOMAIN de_handles :
              de_handles[i].tag = "Some" => de_st.heap[de_handles[i].value].init

\* a pointee has failed to deserialize while another pointer was pooled
PointeeFailed ==
    /\ sp_phase = "resolved"
    /\ de_last.tag = "Some"
    /\ de_last.value.result.tag = "Err"
    /\ DOMAIN de_st.pool # {}
    /\ \E p \in DOMAIN de_st.heap : ~de_st.heap[p].init

\* C6 (ordered-container lookup): for every set of distinct keys archived
\* as an ordered map or set, from none up to sizes that need more than one
\* node, the lookup in place of an inserted key finds it (with the value it
\* was inserted with) and the lookup of any other key reports absence.
OrderedLookup ==
    bt_phase = "got" =>
        LET q == bt_query.value
        IN  bt_found = IF q \in bt_value.keys
                       THEN Some([key |-> q, value |-> bt_value.vals[q]])
                       ELSE None

\* a key has been found in a map of three or more nodes
OrderedLookupFound ==
    /\ bt_phase = "got"
    /\ bt_value.kind = "btree_map"
    /\ Len(bt_nodes) >= 3
    /\ bt_found.tag = "Some"

\* C7 (ordered-container traversal): visiting an archived ordered map or
\* set calls the visitor once per entry, in strictly increasing key order,
\* for exactly the entries that were archived; equality with the live
\* container, which walks its iterator alongside, holds.
OrderedTraversal ==
    /\ \A i, j \in DOMAIN bt_visited : i < j => bt_visited[i].key < bt_visited[j].key
    /\ \A i \in DOMAIN bt_visited :
          /\ bt_visited[i].key \in bt_value.keys
          /\ bt_visited[i].value = bt_value.vals[bt_visited[i].key]
    /\ bt_phase = "visited" =>
          /\ Len(bt_visited) = Cardinality(bt_value.keys)
          /\ {bt_visited[i].key : i \in DOMAIN bt_visited} = bt_value.keys
          /\ IF bt_value.kind = "btree_set" THEN BTreeSet_eq(bt_nodes, bt_root, bt_value)
             ELSE BTreeMap_eq(bt_nodes, bt_root, bt_value)

\* the visit of a set of three or more nodes has returned
OrderedTraversalDone ==
    /\ bt_phase = "visited"
    /\ bt_value.kind = "btree_set"
    /\ Len(bt_nodes) >= 3
    /\ Len(bt_visited) = Cardinality(bt_value.keys)

\* C8 (hashed-container lookup): for every set of distinct keys archived as
\* a hash set or hash map at load factor 7/8, the archived length is the
\* number of keys, the lookup in place of an inserted key returns the entry
\* of that key, and the lookup of any other key returns absent.
HashedLookup ==
    /\ hs_phase \in {"resolved", "probing", "done"} => hs_root.len = len_of(hs_value)
    /\ hs_phase = "done" =>
          hs_found = IF hs_query \in keys_of(hs_value)
                     THEN Some(FullBucket(hs_query, hs_value.vals[hs_query]))
                     ELSE None

\* a key has been found in a map after passing over another entry
HashedLookupFound ==
    /\ hs_phase = "done"
    /\ hs_value.kind = "hash_map"
    /\ hs_found.tag = "Some"
    /\ hs_examined >= 2

\* C9 (hashed-container capacity bound): for n inserted keys and the load
\* factor 7/8 of the hash map and hash set impls, the archived table has at
\* most ceil(n / (7/8)) buckets, n = 0 and n = 1 included: no buckets, or
\* one bucket less than the capacity is fewer than 8n/7.
HashedCapacityBound ==
    /\ hs_phase # "live" =>
          Len(hs_buckets) = 0 \/ 7 * (Len(hs_buckets) - 1) < 8 * len_of(hs_value)
    /\ hs_phase \in {"resolved", "probing", "done"} =>
          /\ hs_root.cap = Len(hs_buckets)
          /\ hs_root.cap = 0 \/ 7 * (hs_root.cap - 1) < 8 * len_of(hs_value)

\* a set of seven or more keys has been archived
HashedCapacityWide ==
    /\ hs_phase = "resolved"
    /\ len_of(hs_value) >= 7
    /\ hs_root.cap > len_of(hs_value)

\* a probe in progress has examined fewer buckets than the capacity, and a
\* finished one at most the capacity, with absence for a key not inserted
HashedLookupBound ==
    /\ hs_phase = "probing" => hs_examined < hs_root.cap
    /\ hs_phase = "done" =>
          /\ hs_examined <= hs_root.cap
          /\ hs_query \notin keys_of(hs_value) => hs_found = None

\* C10 (hashed-container lookup terminates): in a table archived at load
\* factor 7/8, with no keys or with every key colliding as well, a lookup
\* that has started ends, after examining at most capacity buckets, and the
\* lookup of a key that was not inserted reports absence; it never probes
\* forever.
HashedLookupTerminates ==
    /\ []HashedLookupBound
    /\ (hs_phase = "probing") ~> (hs_phase = "done")

\* an absent key was looked up in a set whose keys all collide with it
HashedLookupAbsent ==
    /\ hs_phase = "done"
    /\ len_of(hs_value) >= 3
    /\ \A k \in keys_of(hs_value) : hs_value.hash[k] = hs_qhash
    /\ hs_query \notin keys_of(hs_value)
    /\ hs_examined = len_of(hs_value) + 1

\* C11 (copy-optimization transparency): for every slice of elements whose
\* live and archived forms are bit-identical and that have no out-of-line
\* data, and for every starting position of the writer, the bulk-copy branch
\* and the per-element branch of the slice serializer return the same start
\* offset and leave the writer with the same bytes at the same position.
CopyOptimizationTransparent ==
    (sl_copy.tag = "Some" /\ sl_general.tag = "Some") =>
        /\ sl_copy.value.pos = sl_general.value.pos
        /\ sl_copy.value.w = sl_general.value.w
        /\ pos(sl_copy.value.w) = pos(sl_general.value.w)

\* both branches have run on two or more integers from an unaligned start
BothBranchesRun ==
    /\ sl_copy.tag = "Some"
    /\ sl_general.tag = "Some"
    /\ sl_ty = "i32"
    /\ Len(sl_items) >= 2
    /\ Len(sl_w) % 4 # 0
    /\ sl_copy.value.pos > Len(sl_w)

\* a list of 4-byte integers has been archived into an empty buffer
IntegerListArchived ==
    /\ rt_phase = "serialized"
    /\ rt_value.kind \in {"array_vec", "slice_vec", "tiny_vec"}
    /\ rt_value.ty = "i32"

ResolveNeverFails ==
    (wr_result # None /\ wr_result.value.tag = "Ok") => wr_phase # "panicked"

\* C18: the Skip wrapper.  serialize_with and resolve_with leave the writer
\* as it was, writing no byte for the field, and deserialize_with returns
\* the default value of the field's type whatever the field held.
SkipWritesNothing ==
    wr_with = "Skip" =>
        /\ wr_w = wr_before
        /\ wr_phase # "panicked"
        /\ wr_result # None => wr_result.value = Ok(Unit)
        /\ wr_phase = "resolved" => wr_out = Some(<<>>)
        /\ wr_phase = "deserialized" =>
               wr_de = CASE wr_field.ty = "u32" -> Ok(0)
                         [] wr_field.ty = "string" -> Ok(<<>>)
                         [] wr_field.ty = "option" -> Ok(None)

\* a skipped field that is not the default has been through all three steps
\* behind a writer that already held bytes
SkippedFieldDeserialized ==
    /\ wr_with = "Skip"
    /\ wr_phase = "deserialized"
    /\ wr_field = [ty |-> "u32", int |-> 70000]
    /\ wr_before # <<>>
    /\ wr_de = Ok(0)

BoxLayoutInvalid == layout_raw(bx_archived.kind, bx_archived.metadata).tag = "Err"
BoxAllocFailed ==
    /\ ~BoxLayoutInvalid
    /\ layout_raw(bx_archived.kind, bx_archived.metadata).value.size > 0
    /\ bx_env.alloc_fails
BoxPointeeFailed ==
    /\ ~BoxLayoutInvalid
    /\ bx_archived.kind # "str"
    /\ bx_env.fail_at \in 1..Len(bx_archived.items)

\* C16: deserialize errors are propagated for Box.  When the layout of the
\* pointee is invalid, when the allocation fails or when the pointee fails
\* to deserialize, the call returns Err, gives no Box, and has written
\* through no pointer that was not allocated.
BoxDeserializeErrorsPropagated ==
    (bx_out # None /\ (BoxLayoutInvalid \/ BoxAllocFailed \/ BoxPointeeFailed)) =>
        /\ bx_out.value.result.tag = "Err"
        /\ bx_out.value.through # "null"

\* C17: writer errors are propagated.  When the writer rejects a write or
\* an alignment while a slice, a tuple or an array is serialized, serialize
\* returns that error and no resolver; after the rejected call no element
\* or field is serialized or resolved and the writer is not called again.
\* When no call is rejected, serialize returns Ok.
WriterErrorsPropagated ==
    fw_result # None =>
        IF fw_st.rejected # None
        THEN /\ fw_result.value = Err("WriterError")
             /\ Len(fw_st.events) = fw_st.rejected.value
             /\ fw_st.calls = fw_st.fail_at
        ELSE fw_result.value.tag = "Ok"

\* the writer rejected the relative pointer of the second of three boxes,
\* in the second loop of the slice serializer
SecondResolveRejected ==
    /\ fw_result = Some(Err("WriterError"))
    /\ fw_input.kind = "slice" /\ fw_input.ty = "box" /\ Len(fw_input.items) = 3
    /\ fw_st.events[Len(fw_st.events)] = <<"resolve", 2>>
    /\ fw_st.rejected = Some(5)

\* C19: ArchivedOption ordering against Option.  a.partial_cmp(b) is Equal
\* for None/None, Less for None/Some, Greater for Some/None and the
\* elements' own comparison for Some/Some; b.partial_cmp(a) is its reverse.
OptionOrdering ==
    /\ op_cmp # Unset =>
          /\ (op_a = None /\ op_b = None) => op_cmp = Some("Equal")
          /\ (op_a = None /\ op_b # None) => op_cmp = Some("Less")
          /\ (op_a # None /\ op_b = None) => op_cmp = Some("Greater")
          /\ (op_a # None /\ op_b # None) => op_cmp = elem_partial_cmp(op_a.value, op_b.value)
    /\ (op_cmp # Unset /\ op_rev # Unset) =>
          /\ op_cmp = None <=> op_rev = None
          /\ op_cmp = Some("Less") <=> op_rev = Some("Greater")
          /\ op_cmp = Some("Equal") <=> op_rev = Some("Equal")
          /\ op_cmp = Some("Greater") <=> op_rev = Some("Less")

\* Some(1) has been compared with Some(2), both ways
OptionComparedBothWays ==
    /\ op_a = Some([v |-> 1]) /\ op_b = Some([v |-> 2])
    /\ op_cmp = Some("Less") /\ op_rev = Some("Greater")

\* the calls on the iterator that returned a value
yields == {i \in DOMAIN it_calls : it_calls[i].result # None}

\* C20: ArchivedOption iteration.  The iterator yields the value exactly
\* once when the option is Some and nothing when it is None: the first
\* call of next or next_back returns the option's content and every later
\* call of either returns None, whatever the calls are.
OptionIteration ==
    /\ op_a = None => yields = {}
    /\ it_calls # <<>> =>
          /\ it_calls[1].result = op_a
          /\ \A i \in DOMAIN it_calls : i > 1 => it_calls[i].result = None
          /\ op_a # None => yields = {1}

\* next_back has yielded the value, and next and next_back after it nothing
OptionIteratedBothEnds ==
    /\ op_a = Some([v |-> 1])
    /\ Len(it_calls) = MaxCalls
    /\ it_calls[1] = [call |-> "next_back", result |-> Some([v |-> 1])]
    /\ it_calls[2] = [call |-> "next", result |-> None]
    /\ it_calls[3].call = "next_back"

(***************************************************************************)
(* Aggregates resolved field by field (impls/core/mod.rs): tuples, fixed-  *)
(* size arrays and the general branch of slices.  A Place is a record      *)
(* [pos, size]: the bytes [pos, pos + size) of the output.  An element     *)
(* resolve is recorded as [elem, value, resolver, place, bytes].  The      *)
(* elements are u8, i32 (unit resolver, written as [pos |-> 0]) or         *)
(* Box<i32> (the resolver is the position of the pointee).                 *)
(***************************************************************************)
FieldTys == {"u8", "i32", "box"}

align_up(n, a) == n + ((a - (n % a)) % a)

RECURSIVE offset_of(_, _)
\* the offset of field i of the archived tuple: fields in declaration order,
\* each at the next multiple of its alignment (repr(C))
offset_of(tys, i) ==
    IF i = 1 THEN 0
    ELSE align_up(offset_of(tys, i - 1) + size_of(tys[i - 1]), align_of(tys[i]))

\* size_of the archived tuple: the end of the last field rounded up to the
\* largest field alignment
tuple_size(tys) ==
    LET n == Len(tys)
        a == IF \E i \in 1..n : align_of(tys[i]) = 4 THEN 4 ELSE 1
    IN  IF n = 0 THEN 0 ELSE align_up(offset_of(tys, n) + size_of(tys[n]), a)

\* `addr_of_mut!((*out_ptr).$index)` and `Place::from_field_unchecked`
Place_field(out, tys, i) ==
    [pos |-> out.pos + offset_of(tys, i), size |-> size_of(tys[i])]

\* the element Places one byte apart
Place_index_unscaled(out, ty, i) == [pos |-> out.pos + (i - 1), size |-> size_of(ty)]
\* `out.index(i)`: the Place of element i (counted from 1 here)
Place_index(out, ty, i) == [pos |-> out.pos + (i - 1) * size_of(ty), size |-> size_of(ty)]

\* Serialize::serialize of one element
Field_serialize(w, ty, v) ==
    IF ty = "box" THEN ArchivedBox_serialize_from_ref(w, "i32", v)
    ELSE [resolver |-> [pos |-> 0], w |-> w]

\* Archive::resolve of one element: the bytes it writes into its Place
Field_resolve(ty, v, resolver, place) ==
    IF ty = "box" THEN ArchivedBox_resolve_from_ref(resolver, place.pos)
    ELSE le_bytes(v, size_of(ty))

\* one element resolve
resolve_call(i, ty, v, resolver, place) ==
    [elem |-> i, value |-> v, resolver |-> resolver, place |-> place,
     bytes |-> Field_resolve(ty, v, resolver, place)]

RECURSIVE Fields_serialize(_, _, _, _, _)
\* the serialize of a tuple (`$(self.$index.serialize(serializer)?,)*`) and
\* of an array (the loop writing `resolvers[i]`): every element in order
Fields_serialize(w, tys, items, i, resolvers) ==
    IF i > Len(items) THEN [resolver |-> resolvers, w |-> w]
    ELSE LET r == Field_serialize(w, tys[i], items[i])
         IN  Fields_serialize(r.w, tys, items, i + 1, Append(resolvers, r.resolver))

\* impl_tuple! Archive::resolve: field i with resolver.i at the Place of
\* field i
Tuple_resolve_fields(v, resolver, out) ==
    [i \in 1..Len(v.items) |->
        resolve_call(i, v.tys[i], v.items[i], resolver[i], Place_field(out, v.tys, i))]

\* every element resolved with the resolver of the element opposite to it
Array_resolve_elements_swapped(v, resolver, out) ==
    [i \in 1..Len(v.items) |->
        resolve_call(i, v.tys[i], v.items[i], resolver[Len(v.items) + 1 - i],
                     Place_index(out, v.tys[i], i))]
\* <[T; N] as Archive>::resolve:
\* `for (i, (value, resolver)) in self.iter().zip(resolver).enumerate()`
Array_resolve_elements(v, resolver, out) ==
    [i \in 1..Len(v.items) |->
        resolve_call(i, v.tys[i], v.items[i], resolver[i], Place_index(out, v.tys[i], i))]

RECURSIVE Slice_resolve_elements(_, _, _, _, _)
\* the second loop of the slice serializer:
\* `for (value, resolver) in self.iter().zip(resolvers.drain())` with
\* `serializer.resolve_aligned(value, resolver)?`, the Place being where the
\* writer stands; [w, log]
Slice_resolve_elements(w, v, resolvers, i, log) ==
    IF i > Len(v.items) THEN [w |-> w, log |-> log]
    ELSE LET call == resolve_call(i, v.tys[i], v.items[i], resolvers[i],
                                  [pos |-> pos(w), size |-> size_of(v.tys[i])])
         IN  Slice_resolve_elements(write(w, call.bytes), v, resolvers, i + 1,
                                    Append(log, call))

\* <[T] as SerializeUnsized>::serialize_unsized with the element resolves
\* it makes: [pos, w, resolvers, log].  An empty slice, which carries no
\* element type here, takes the general branch with the alignment of a box.
Slice_serialize_logged(w, v) ==
    IF v.items # <<>> /\ COPY_OPTIMIZATION(v.tys[1])
    THEN LET r == Slice_serialize_copy(w, v.items, v.tys[1])
         IN  [pos |-> r.pos, w |-> r.w, resolvers |-> <<>>, log |-> <<>>]
    ELSE LET s == Fields_serialize(w, v.tys, v.items, 1, <<>>)
             aligned == align_for(s.w, IF v.items = <<>> THEN "box" ELSE v.tys[1])
             r == Slice_resolve_elements(aligned, v, s.resolver, 1, <<>>)
         IN  [pos |-> pos(aligned), w |-> r.w, resolvers |-> s.resolver, log |-> r.log]

\* the output after the element resolves: every byte of a Place holds what
\* the last resolve of that Place wrote
written(buf, log) ==
    [k \in 1..Len(buf) |->
        LET hits == {j \in 1..Len(log) :
                        log[j].place.pos < k /\ k <= log[j].place.pos + Len(log[j].bytes)}
        IN  IF hits = {} THEN buf[k]
            ELSE LET j == CHOOSE j \in hits : \A h \in hits : h <= j
                 IN  log[j].bytes[k - log[j].place.pos]]

\* the aggregates archived: tuples of up to MaxLen fields of any types,
\* arrays and slices of up to MaxLen elements of one type
AgValues ==
    { [kind |-> "tuple", tys |-> tys, items |-> [i \in 1..Len(tys) |-> 10 + i]] :
        tys \in UNION {[1..n -> FieldTys] : n \in 1..MaxLen} }
    \cup
    { [kind |-> k, tys |-> [i \in 1..n |-> ty], items |-> [i \in 1..n |-> 10 + i]] :
        k \in {"array", "slice"}, ty \in FieldTys, n \in 0..MaxLen }

AgInit ==
    /\ ag_value \in AgValues
    /\ \E k \in 0..MaxStart : ag_w = [i \in 1..k |-> 255]
    /\ ag_resolvers = <<>>
    /\ ag_out = None
    /\ ag_log = <<>>
    /\ ag_phase = "new"

\* Serialize::serialize of the aggregate (serialize_unsized for a slice,
\* which resolves its elements itself)
AgSerialize ==
    /\ ag_phase = "new"
    /\ IF ag_value.kind = "slice"
       THEN LET r == Slice_serialize_logged(ag_w, ag_value)
            IN  /\ ag_w' = r.w
                /\ ag_resolvers' = r.resolvers
                /\ ag_log' = r.log
                /\ ag_out' = Some([pos |-> r.pos, size |-> pos(r.w) - r.pos])
                /\ ag_phase' = "resolved"
       ELSE LET r == Fields_serialize(ag_w, ag_value.tys, ag_value.items, 1, <<>>)
            IN  /\ ag_w' = r.w
                /\ ag_resolvers' = r.resolver
                /\ ag_phase' = "serialized"
                /\ UNCHANGED <<ag_log, ag_out>>
    /\ UNCHANGED <<ag_value, others_ag>>

\* the size of the archived aggregate
aggregate_size(v) ==
    IF v.kind = "tuple" THEN tuple_size(v.tys)
    ELSE IF v.items = <<>> THEN 0 ELSE Len(v.items) * size_of(v.tys[1])

\* Archive::resolve of the tuple or the array at the root: the writer is
\* aligned, the Place is the next size_of bytes, the fields are resolved
AgResolve ==
    /\ ag_phase = "serialized"
    /\ LET aligned == align_for(ag_w, "box")
           out == [pos |-> pos(aligned), size |-> aggregate_size(ag_value)]
           log == IF ag_value.kind = "tuple"
                  THEN Tuple_resolve_fields(ag_value, ag_resolvers, out)
                  ELSE Array_resolve_elements(ag_value, ag_resolvers, out)
       IN  /\ ag_out' = Some(out)
           /\ ag_log' = log
           /\ ag_w' = written(pad(aligned, out.size), log)
    /\ ag_phase' = "resolved"
    /\ UNCHANGED <<ag_value, ag_resolvers, others_ag>>

AgNext == AgSerialize \/ AgResolve

InitAggregate == AgInit /\ CoreIdle /\ SlIdle /\ WrIdle /\ RlIdle /\ PaIdle /\ BxIdle /\ FwIdle /\ OpIdle /\ FdIdle /\ MdIdle
SpecAggregate == InitAggregate /\ [][AgNext]_vars

\* two Places share no byte
disjoint(p, q) == p.pos + p.size <= q.pos \/ q.pos + q.size <= p.pos

\* the Place p lies inside the Place q
inside(p, q) == q.pos <= p.pos /\ p.pos + p.size <= q.pos + q.size

\* C21: when a tuple or a fixed-size array has been resolved, every field
\* was resolved exactly once, at a Place inside the Place of the aggregate,
\* the bytes it wrote fill that Place, and the Places of two fields share
\* no byte.
DisjointFieldPlaces ==
    (ag_phase = "resolved" /\ ag_value.kind \in {"tuple", "array"}) =>
        /\ Len(ag_log) = Len(ag_value.items)
        /\ \A i \in 1..Len(ag_log) :
              /\ ag_log[i].elem = i
              /\ inside(ag_log[i].place, ag_out.value)
              /\ Len(ag_log[i].bytes) = ag_log[i].place.size
              /\ bytes_at(ag_w, ag_log[i].place.pos, ag_log[i].place.size) = ag_log[i].bytes
        /\ \A i, j \in 1..Len(ag_log) :
              i # j => disjoint(ag_log[i].place, ag_log[j].place)

\* a tuple (u8, i32, Box<i32>) resolved: the i32 stands four bytes into the
\* Place of the tuple, after the padding that follows the u8
MixedTupleResolved ==
    /\ ag_phase = "resolved"
    /\ ag_value.kind = "tuple"
    /\ ag_value.tys = <<"u8", "i32", "box">>
    /\ ag_log[2].place.pos = ag_out.value.pos + 4

\* the slot of element i of an array or a slice laid out from `out`
slot(out, ty, i) == out.pos + (i - 1) * size_of(ty)

\* C24: when an array, or a slice on the general branch, has been archived,
\* there are as many element resolves as elements and as resolvers; the
\* resolve of slot i is the i-th one and is given element i and the resolver
\* that the serialize of element i returned (for a Box, the position where
\* the pointee of element i was written, which no other element shares).
EachResolverUsedOnce ==
    (/\ ag_phase = "resolved"
     /\ ag_value.kind \in {"array", "slice"}
     /\ ~(ag_value.kind = "slice" /\ ag_value.items # <<>>
          /\ COPY_OPTIMIZATION(ag_value.tys[1]))) =>
        /\ Len(ag_resolvers) = Len(ag_value.items)
        /\ Len(ag_log) = Len(ag_value.items)
        /\ \A i \in 1..Len(ag_log) :
              /\ ag_log[i].elem = i
              /\ ag_log[i].value = ag_value.items[i]
              /\ ag_log[i].resolver = ag_resolvers[i]
              /\ ag_log[i].place.pos = slot(ag_out.value, ag_value.tys[i], i)
              /\ ag_value.tys[i] = "box" =>
                    /\ bytes_at(ag_w, ag_log[i].resolver.pos, 4)
                           = le_bytes(ag_value.items[i], 4)
                    /\ RelPtr_target(ag_w, ag_log[i].place.pos) = ag_resolvers[i].pos
                    /\ \A j \in 1..Len(ag_log) :
                          j # i => ag_log[j].resolver # ag_log[i].resolver

\* an array and a slice of several boxes both reach the end
BoxElementsResolved ==
    /\ ag_phase = "resolved"
    /\ ag_value.kind \in {"array", "slice"}
    /\ Len(ag_value.items) >= 2
    /\ ag_value.tys[1] = "box"
    /\ Len(ag_log) = Len(ag_value.items)

\* where operation `op` stands in the two passes: nothing is aligned or
\* resolved while an element is still to be serialized; the alignment comes
\* when every element has its resolver; from then on the slots resolved so
\* far are consecutive from the returned offset to the end of the writer,
\* and the pointee of each lies before the first slot
two_pass_order(op) ==
    /\ op.phase = "serialize" =>
          /\ Len(op.resolvers) < Len(op.handles)
          /\ op.result = None
          /\ op.resolved = 0
    /\ op.phase = "align" =>
          /\ Len(op.resolvers) = Len(op.handles)
          /\ op.result = None
          /\ op.resolved = 0
    /\ op.phase \in {"resolve", "done"} =>
          /\ Len(op.resolvers) = Len(op.handles)
          /\ op.result # None
          /\ op.result.value % align_of("box") = 0
          /\ pos(op.st.w) = op.result.value + op.resolved * size_of("box")
          /\ \A j \in 1..op.resolved :
                /\ RelPtr_target(op.st.w, op.result.value + (j - 1) * size_of("box"))
                       = op.resolvers[j].pos
                /\ op.resolvers[j].pos + size_of("i32") <= op.result.value
    /\ op.phase = "resolve" => op.resolved < Len(op.handles)
    /\ op.phase = "done" => op.resolved = Len(op.handles)

\* a step resolves the next element in index order, and only once the
\* alignment is done; it writes the slot and nothing else
resolves_in_order(k) ==
    LET op == pa_ops[k]
        next == pa_ops'[k]
    IN  /\ next.resolved \in {op.resolved, op.resolved + 1}
        /\ next.resolved # op.resolved =>
              /\ op.phase = "resolve"
              /\ pos(next.st.w) = pos(op.st.w) + size_of("box")
              /\ SubSeq(next.st.w, 1, pos(op.st.w)) = op.st.w
        /\ next.resolvers # op.resolvers => op.phase = "serialize"

\* C22: on the general branch of the slice serializer, the serialize of
\* every element completes before the writer is aligned, the alignment
\* completes before any element is resolved, and the elements are resolved
\* in index order into consecutive slots that start at the returned offset,
\* with no out-of-line bytes between the slots.
TwoPassSliceOrder ==
    /\ [](\A k \in DOMAIN pa_ops : two_pass_order(pa_ops[k]))
    /\ [][\A k \in DOMAIN pa_ops : resolves_in_order(k)]_vars

\* an operation over three pointers has written two payloads, aligned, and
\* resolved its second slot
SecondSlotResolved ==
    \E k \in DOMAIN pa_ops :
        /\ pa_ops[k].phase = "resolve"
        /\ Len(pa_ops[k].handles) = 3
        /\ pa_ops[k].resolved = 2
        /\ Len(pa_ops[k].st.written) >= 2

(***************************************************************************)
(* Box (impls/alloc/boxed.rs) and the wrappers Boxed, BoxedInline, Unsafe  *)
(* and Map (with/impls/core.rs) on one field.  A pointee, and the content  *)
(* of a cell, is [ty |-> "i32", int |-> v] or [ty |-> "str", bytes |-> s]  *)
(* (a str behind a pointer; as the content of a cell, a Box<str>).  The    *)
(* field behind Map is an Option<i32> with Boxed inside.                   *)
(***************************************************************************)
\* T::serialize_unsized for the pointee: [pos, w]
Pointee_serialize_unsized(w, f) ==
    IF f.ty = "i32" THEN Sized_serialize_unsized(w, "i32", f.int)
    ELSE str_serialize_unsized(w, f.bytes)

\* the bytes of the pointee as they stand in the buffer
pointee_bytes(f) == IF f.ty = "i32" THEN le_bytes(f.int, 4) ELSE f.bytes

\* ArchivedBox::serialize_from_ref for any pointee: BoxResolver { pos }
ArchivedBox_serialize_pointee(w, f) ==
    LET r == Pointee_serialize_unsized(w, f)
    IN  [resolver |-> [pos |-> r.pos], w |-> r.w]

\* ArchivedBox::resolve_from_ref for any pointee: the relative pointer, then
\* the archived metadata (none for a sized pointee)
ArchivedBox_resolve_pointee(f, resolver, out) ==
    ArchivedBox_resolve_from_ref(resolver, out)
        \o (IF f.ty = "str" THEN str_archived_metadata(f.bytes) ELSE <<>>)

\* impl Serialize<S> for Box<T>
BoxT_serialize(field, w) == ArchivedBox_serialize_pointee(w, field)
\* impl Archive for Box<T>
BoxT_resolve(field, resolver, out) == ArchivedBox_resolve_pointee(field, resolver, out)

\* the position the pointee would get, with nothing written there
Boxed_serialize_with_deferred(field, w) == [resolver |-> [pos |-> pos(w)], w |-> w]
\* <Boxed as SerializeWith<F, S>>::serialize_with
Boxed_serialize_with(field, w) == ArchivedBox_serialize_pointee(w, field)
\* <Boxed as ArchiveWith<F>>::resolve_with
Boxed_resolve_with(field, resolver, out) == ArchivedBox_resolve_pointee(field, resolver, out)

\* <BoxedInline as SerializeWith<&F, S>>::serialize_with: `*field`
BoxedInline_serialize_with(field, w) == ArchivedBox_serialize_pointee(w, field)
\* <BoxedInline as ArchiveWith<&F>>::resolve_with
BoxedInline_resolve_with(field, resolver, out) ==
    ArchivedBox_resolve_pointee(field, resolver, out)

\* F::serialize for the content of a cell: nothing for an i32 (unit
\* resolver), the bytes of the string for a Box<str>
Content_serialize(f, w) ==
    IF f.ty = "i32" THEN [resolver |-> Unit, w |-> w]
    ELSE ArchivedBox_serialize_pointee(w, f)

\* F::resolve for the content of a cell
Content_resolve(f, resolver, out) ==
    IF f.ty = "i32" THEN le_bytes(f.int, 4)
    ELSE ArchivedBox_resolve_pointee(f, resolver, out)

\* <Unsafe as SerializeWith<UnsafeCell<F>, S>>::serialize_with and the same
\* for Cell<F>: `(*field.get()).serialize(serializer)`; `field` is what the
\* cell holds at the call
Unsafe_serialize_with(field, w) == Content_serialize(field, w)

\* the default of the content resolved, whatever the cell holds
Unsafe_resolve_with_default(field, resolver, out) ==
    Content_resolve(IF field.ty = "i32" THEN [ty |-> "i32", int |-> 0]
                    ELSE [ty |-> "str", bytes |-> <<>>], resolver, out)
\* <Unsafe as ArchiveWith<UnsafeCell<F>>>::resolve_with and the same for
\* Cell<F>: `&*field.get()` / `&*field.as_ptr()` read at the call, then
\* F::resolve
Unsafe_resolve_with(field, resolver, out) == Content_resolve(field, resolver, out)

\* a resolver returned for a field that is None as well
Map_serialize_with_some(field, w) ==
    IF field = None THEN [resolver |-> Some([pos |-> pos(w)]), w |-> w]
    ELSE LET r == Boxed_serialize_with(field.value, w)
         IN  [resolver |-> Some(r.resolver), w |-> r.w]
\* <Map<A> as SerializeWith<Option<O>, S>>::serialize_with, A being Boxed
\* and O an i32:
\* `field.as_ref().map(|value| A::serialize_with(value, s)).transpose()`
Map_serialize_with(field, w) ==
    IF field = None THEN [resolver |-> None, w |-> w]
    ELSE LET r == Boxed_serialize_with(field.value, w)
         IN  [resolver |-> Some(r.resolver), w |-> r.w]

\* the outcome of unreachable_unchecked() when it is reached
Undefined == [tag |-> "Undefined"]

\* <Map<A> as ArchiveWith<Option<O>>>::resolve_with: the tag alone for a
\* None resolver; for a Some resolver the tag, then the value resolved by A
\* at the Place of the value, which follows the tag at the alignment of the
\* value.  `size` is size_of the archived option.
Map_resolve_with(field, resolver, out, size) ==
    IF resolver = None THEN <<0>> \o [i \in 1..(size - 1) |-> 0]
    ELSE IF field = None THEN Undefined
    ELSE <<1, 0, 0, 0>> \o Boxed_resolve_with(field.value, resolver.value, out + 4)

PointeeFields ==
    {[ty |-> "i32", int |-> v] : v \in {10, -1}}
    \cup {[ty |-> "str", bytes |-> v] : v \in {<<>>, <<104, 105>>, <<104, 105, 33>>}}

PointerWrappers == {"Box", "Boxed", "BoxedInline"}
CellWrappers == {"UnsafeCell", "Cell"}

FdInit ==
    /\ fd_with \in PointerWrappers \cup CellWrappers \cup {"Map"}
    /\ fd_field \in IF fd_with = "Map"
                    THEN {None} \cup {Some(f) : f \in {g \in PointeeFields : g.ty = "i32"}}
                    ELSE PointeeFields
    /\ fd_seen = None
    /\ \E k \in 0..MaxStart : fd_before = [i \in 1..k |-> 255]
    /\ fd_w = fd_before
    /\ fd_result = None
    /\ fd_out = None
    /\ fd_writes = 0
    /\ fd_phase = "live"

\* serialize / W::serialize_with(field, serializer)
FdSerialize ==
    /\ fd_phase = "live"
    /\ LET r == CASE fd_with = "Box" -> BoxT_serialize(fd_field, fd_w)
                  [] fd_with = "Boxed" -> Boxed_serialize_with(fd_field, fd_w)
                  [] fd_with = "BoxedInline" -> BoxedInline_serialize_with(fd_field, fd_w)
                  [] fd_with \in CellWrappers -> Unsafe_serialize_with(fd_field, fd_w)
                  [] fd_with = "Map" -> Map_serialize_with(fd_field, fd_w)
       IN  /\ fd_w' = r.w
           /\ fd_result' = Some(r.resolver)
    /\ fd_seen' = Some(fd_field)
    /\ fd_phase' = "serialized"
    /\ UNCHANGED <<fd_with, fd_field, fd_before, fd_out, fd_writes, others_fd>>

\* a write to the cell through another reference to it (Cell::set, or a
\* write through UnsafeCell::get), with a value of the type it holds
FdWrite ==
    /\ fd_phase = "serialized"
    /\ fd_with \in CellWrappers
    /\ fd_writes < MaxFails
    /\ \E f \in PointeeFields :
          /\ f.ty = fd_field.ty
          /\ f # fd_field
          /\ fd_field' = f
    /\ fd_writes' = fd_writes + 1
    /\ UNCHANGED <<fd_with, fd_seen, fd_before, fd_w, fd_result, fd_out, fd_phase, others_fd>>

\* size_of the archived form of the field
field_size(with, field) ==
    IF with = "Map" THEN 4 + size_of("box")
    ELSE IF field.ty = "str" THEN size_of("box_str") ELSE size_of("box")

\* resolve / W::resolve_with(field, resolver, out) with the resolver
\* returned before, at the Place the aligned writer gives
FdResolve ==
    /\ fd_phase = "serialized"
    /\ LET aligned == align_for(fd_w, "box")
           out == pos(aligned)
           resolver == fd_result.value
           bytes == CASE fd_with = "Box" -> BoxT_resolve(fd_field, resolver, out)
                      [] fd_with = "Boxed" -> Boxed_resolve_with(fd_field, resolver, out)
                      [] fd_with = "BoxedInline" ->
                            BoxedInline_resolve_with(fd_field, resolver, out)
                      [] fd_with \in CellWrappers ->
                            Unsafe_resolve_with(fd_field, resolver, out)
                      [] fd_with = "Map" ->
                            Map_resolve_with(fd_field, resolver, out,
                                             field_size(fd_with, fd_field))
       IN  IF fd_with = "Map" /\ resolver # None /\ fd_field = None
           THEN /\ fd_phase' = "undefined"
                /\ fd_out' = Some(out)
                /\ \E junk \in {<<>>, <<1, 0, 0, 0>>} : fd_w' = write(aligned, junk)
           ELSE /\ fd_phase' = "resolved"
                /\ fd_out' = Some(out)
                /\ fd_w' = write(aligned, bytes)
    /\ UNCHANGED <<fd_with, fd_field, fd_seen, fd_before, fd_result, fd_writes, others_fd>>

FdNext == FdSerialize \/ FdWrite \/ FdResolve

InitField == FdInit /\ CoreIdle /\ SlIdle /\ WrIdle /\ RlIdle /\ PaIdle /\ BxIdle /\ FwIdle /\ OpIdle /\ AgIdle /\ MdIdle
SpecField == InitField /\ [][FdNext]_vars

\* the pointee of the field stands in the buffer at the offset the resolver
\* recorded, among the bytes written since the start
pointee_in_place(w) ==
    LET at == fd_result.value.pos
        bytes == pointee_bytes(fd_field)
    IN  /\ Len(fd_before) <= at
        /\ at + Len(bytes) <= Len(w)
        /\ bytes_at(w, at, Len(bytes)) = bytes

\* C23: for a Box, and for a field archived with Boxed or BoxedInline, the
\* bytes of the pointee are written by serialize at the offset recorded in
\* the resolver, before the relative pointer is resolved: once serialize
\* has returned the pointee stands at that offset, the step that resolves
\* the pointer starts from a buffer that holds it already and leaves it as
\* it is, and the pointer written refers to it from a later offset.
PointeeBeforePointer ==
    /\ [](fd_with \in PointerWrappers =>
            /\ fd_phase = "live" => (fd_result = None /\ fd_out = None)
            /\ fd_phase = "serialized" => (fd_out = None /\ pointee_in_place(fd_w))
            /\ fd_phase = "resolved" =>
                  /\ pointee_in_place(fd_w)
                  /\ fd_result.value.pos + Len(pointee_bytes(fd_field)) <= fd_out.value
                  /\ RelPtr_target(fd_w, fd_out.value) = fd_result.value.pos)
    /\ [][(fd_with \in PointerWrappers /\ fd_out' # fd_out) =>
              /\ pointee_in_place(fd_w)
              /\ SubSeq(fd_w', 1, Len(fd_w)) = fd_w
              /\ fd_result' = fd_result]_vars

\* a string of three bytes behind Boxed, written after an unaligned start,
\* has its pointer resolved
BoxedStringResolved ==
    /\ fd_with = "Boxed"
    /\ fd_phase = "resolved"
    /\ fd_field = [ty |-> "str", bytes |-> <<104, 105, 33>>]
    /\ Len(fd_before) % 4 = 2
    /\ fd_out.value > fd_result.value.pos + 3

\* the bytes of the archived field where it was resolved
resolved_bytes == bytes_at(fd_w, fd_out.value, field_size(fd_with, fd_field))

\* the content read in place from the archived cell
archived_content ==
    IF fd_field.ty = "i32"
    THEN [ty |-> "i32", int |-> deserialize_elem(fd_w, "i32", fd_out.value)]
    ELSE [ty |-> "str", bytes |-> BoxStr_get(fd_w, fd_out.value)]

\* C25: the Unsafe wrapper on Cell and UnsafeCell.  resolve_with resolves
\* what the cell holds when it is called, and completes whatever happened
\* to the cell: with no write to the cell since serialize_with that is the
\* value serialized, and the archived cell reads as that value; a write in
\* between is not detected, and what is resolved is the modified content.
UnsafeCellResolve ==
    (fd_with \in CellWrappers /\ fd_phase # "live") =>
        /\ fd_phase \in {"serialized", "resolved"}
        /\ fd_writes = 0 => fd_field = fd_seen.value
        /\ fd_phase = "resolved" =>
              /\ resolved_bytes = Content_resolve(fd_field, fd_result.value, fd_out.value)
              /\ fd_field = fd_seen.value => archived_content = fd_seen.value
              /\ fd_field # fd_seen.value =>
                    /\ fd_writes > 0
                    /\ resolved_bytes
                          # Content_resolve(fd_seen.value, fd_result.value, fd_out.value)
                    /\ archived_content # fd_seen.value

\* a Cell holding a string was written to between the two calls, and the
\* archived string has the length of the new one
CellWrittenBetween ==
    /\ fd_with = "Cell"
    /\ fd_phase = "resolved"
    /\ fd_writes = 1
    /\ fd_seen.value = [ty |-> "str", bytes |-> <<104, 105>>]
    /\ fd_field = [ty |-> "str", bytes |-> <<>>]
    /\ str_pointer_metadata(fd_w, fd_out.value + 4) = 0

\* C28: the Map wrapper over Option.  serialize_with returns a Some
\* resolver exactly when the field is Some; resolve_with, called with that
\* resolver and the same field, writes the None tag for a None field, and
\* for a Some field the Some tag followed by the value as the inner
\* wrapper resolves it at the Place of the value; the unreachable branch
\* (a Some resolver with a None field) is never taken.
MapOverOption ==
    fd_with = "Map" =>
        /\ fd_phase # "undefined"
        /\ fd_result # None => ((fd_result.value = None) <=> (fd_field = None))
        /\ (fd_phase = "resolved" /\ fd_field = None) =>
              /\ fd_w[fd_out.value + 1] = 0
              /\ Len(fd_w) = fd_out.value + field_size(fd_with, fd_field)
        /\ (fd_phase = "resolved" /\ fd_field # None) =>
              /\ fd_w[fd_out.value + 1] = 1
              /\ bytes_at(fd_w, fd_out.value + 4, size_of("box"))
                    = Boxed_resolve_with(fd_field.value, fd_result.value.value,
                                         fd_out.value + 4)
              /\ RelPtr_target(fd_w, fd_out.value + 4) = fd_result.value.value.pos
              /\ bytes_at(fd_w, fd_result.value.value.pos,
                          Len(pointee_bytes(fd_field.value)))
                    = pointee_bytes(fd_field.value)
              /\ Len(fd_w) = fd_out.value + field_size(fd_with, fd_field)

\* a Some field, an i32 behind the inner wrapper, has been resolved with
\* its Some resolver after an unaligned start
MappedSomeResolved ==
    /\ fd_with = "Map"
    /\ fd_phase = "resolved"
    /\ fd_field = Some([ty |-> "i32", int |-> -1])
    /\ fd_result.value # None
    /\ Len(fd_before) % 4 = 1
    /\ fd_w[fd_out.value + 1] = 1

\* the fields whose archived pointer is to `address` and was deserialized
\* with success, and those among them whose handle was dropped since
returned_for(address) ==
    {i \in DOMAIN de_handles : archived_address(i) = address /\ de_handles[i] # None}
dropped_for(address) ==
    {i \in returned_for(address) : de_handles[i].tag = "Dropped"}

\* C26: the ownership count of a deserialized triomphe Arc.  After k >= 1
\* successful deserializations of archived pointers to one archived offset
\* with one pool, the count of the allocation is k + 1, the reference of
\* the pool and one for each handle returned; each handle dropped takes one
\* off, so dropping every handle while the pool is alive leaves the count
\* of the pool and frees nothing; no handle is held to an allocation whose
\* count is 0.
ArcOwnershipCount ==
    sp_phase = "resolved" =>
        /\ \A address \in DOMAIN de_st.pool :
              LET a == de_st.heap[de_st.pool[address]]
                  k == Cardinality(returned_for(address))
                  d == Cardinality(dropped_for(address))
              IN  /\ k >= 1
                  /\ a.count = k + 1 - d
                  /\ a.count >= 1
                  /\ a.alive
        /\ \A i \in DOMAIN de_handles :
              de_handles[i].tag = "Some" =>
                  /\ archived_address(i) \in DOMAIN de_st.pool
                  /\ de_handles[i].value = de_st.pool[archived_address(i)]
                  /\ de_st.heap[de_handles[i].value].count >= 2

\* three pointers to one offset were deserialized (the count was 4), and
\* every handle has been dropped: the allocation lives on with the pool
AllHandlesDropped ==
    /\ sp_phase = "resolved"
    /\ \E address \in DOMAIN de_st.pool :
          /\ Cardinality(returned_for(address)) = 3
          /\ dropped_for(address) = returned_for(address)
          /\ de_st.heap[de_st.pool[address]].count = 1
          /\ de_st.heap[de_st.pool[address]].alive

\* the entries in the table that serialize laid out
full_buckets == {i \in DOMAIN hs_buckets : hs_buckets[i].ctrl = "full"}

\* C27: serialize and resolve agree for the hashed containers.  Both are
\* given the load factor 7/8 and the same length (len() of the container is
\* the number of entries its iterator yields), so the length and the
\* capacity that resolve writes in the root are the number of entries and
\* the number of buckets of the table that serialize laid out.
HashedSerializeResolveAgree ==
    /\ HashSet_serialize_load_factor = HashSet_resolve_load_factor
    /\ HashMap_serialize_load_factor = HashMap_resolve_load_factor
    /\ HashMap_resolve_load_factor = <<7, 8>>
    /\ HashSet_resolve_load_factor = <<7, 8>>
    /\ hs_phase # "live" =>
          /\ Len(iter_of(hs_value)) = len_of(hs_value)
          /\ Cardinality(full_buckets) = len_of(hs_value)
          /\ Len(hs_buckets) = capacity_from_len(len_of(hs_value), <<7, 8>>)
    /\ hs_phase \in {"resolved", "probing", "done"} =>
          /\ hs_root.len = Cardinality(full_buckets)
          /\ hs_root.cap = Len(hs_buckets)
          /\ SwissTable_iter(hs_buckets, hs_root)
                = SelectSeq(hs_buckets, LAMBDA b : b.ctrl = "full")

\* a map of three or more entries has its root written, and the root
\* counts every entry and every bucket of the table
HashedRootWritten ==
    /\ hs_phase = "resolved"
    /\ hs_value.kind = "hash_map"
    /\ len_of(hs_value) >= 3
    /\ hs_root.cap = Len(hs_buckets)
    /\ hs_root.len = Cardinality(full_buckets)

\* the entries of the archived container in the order visit goes through
\* them, and the places of those that fail to deserialize
archived_entries == BTree_visit(bt_nodes, bt_root)
failing == {i \in DOMAIN archived_entries : archived_entries[i].key \in bt_fails}

\* C29: deserialize of an archived ordered map or set visits the entries in
\* order and stops at the first one whose key or value fails: the error of
\* that entry is returned, no later entry is visited and no partly filled
\* container is returned; when none fails the result holds exactly the
\* entries visited, which are all of them.
DeserializeStopsAtFirstError ==
    bt_phase = "deserialized" =>
        /\ \A i \in DOMAIN bt_visited : bt_visited[i] = archived_entries[i]
        /\ failing = {} =>
              /\ bt_visited = archived_entries
              /\ bt_result.tag = "Ok"
              /\ bt_result.value =
                    IF bt_value.kind = "btree_set"
                    THEN {bt_visited[i].key : i \in DOMAIN bt_visited}
                    ELSE [k \in {bt_visited[i].key : i \in DOMAIN bt_visited} |->
                             bt_value.vals[k]]
        /\ failing # {} =>
              LET first == CHOOSE i \in failing : \A j \in failing : i <= j
              IN  /\ bt_result = Err(archived_entries[first].key)
                  /\ Len(bt_visited) = first
                  /\ \A i \in 1..(first - 1) : bt_visited[i].key \notin bt_fails

\* in a map of three or more nodes the second entry failed, a later one
\* would have failed as well, and the visit stopped at the second
SecondEntryFailed ==
    /\ bt_phase = "deserialized"
    /\ bt_value.kind = "btree_map"
    /\ Len(bt_nodes) >= 3
    /\ Cardinality(bt_fails) = 2
    /\ bt_result.tag = "Err"
    /\ Len(bt_visited) = 2
    /\ Len(archived_entries) > 3

(***************************************************************************)
(* The length metadata of slices and str (impls/core/mod.rs).              *)
(***************************************************************************)
\* `x as T` between unsigned integers of `from` and `to` bits: the low bits
\* are kept when the target is narrower, the value when it is not.  (The
\* values of the model are below 2^31, so only a 16-bit target cuts.)
cast_unsigned(x, from, to) == IF to < from /\ to = 16 THEN x % 65536 ELSE x

\* ArchivedUsize::from_native: the little-endian bytes at the archived width
ArchivedUsize_from_native(x, width) == le_bytes(x, width \div 8)
\* ArchivedUsize::to_native
ArchivedUsize_to_native(archived) == from_le(archived)

\* <[T] as ArchiveUnsized>::archived_metadata and the same for str:
\* `ArchivedUsize::from_native(ptr_meta::metadata(self) as _)`
archived_metadata(kind, len, target, width) ==
    ArchivedUsize_from_native(cast_unsigned(len, target, width), width)

\* <[T] as ArchivePointee>::pointer_metadata: `archived.to_native() as usize`
Slice_pointer_metadata(archived, target, width) ==
    cast_unsigned(ArchivedUsize_to_native(archived), width, target)

\* ArchivePointee::pointer_metadata of the kind; for str it is
\* `<[u8]>::pointer_metadata(archived)`
pointer_metadata(kind, archived, target, width) ==
    Slice_pointer_metadata(archived, target, width)

\* lengths of the native size type: small ones, and the ones around the
\* limits of 16 bits and of the model's integers
NativeLens(target) ==
    IF target = 16 THEN {0, 1, MaxLen, 255, 65535}
    ELSE {0, 1, MaxLen, 255, 65535, 65536, 65536 + MaxLen, 131072, 2147483647}

MdInit ==
    /\ md_target \in TargetWidths
    /\ md_width \in PointerWidths
    /\ md_kind \in {"slice", "str"}
    /\ md_len \in NativeLens(md_target)
    /\ md_archived = <<>>
    /\ md_rebuilt = None
    /\ md_phase = "live"

\* x.archived_metadata()
MdArchive ==
    /\ md_phase = "live"
    /\ md_archived' = archived_metadata(md_kind, md_len, md_target, md_width)
    /\ md_phase' = "archived"
    /\ UNCHANGED <<md_target, md_width, md_kind, md_len, md_rebuilt, others_md>>

\* pointer_metadata(&archived)
MdRebuild ==
    /\ md_phase = "archived"
    /\ md_rebuilt' = Some(pointer_metadata(md_kind, md_archived, md_target, md_width))
    /\ md_phase' = "rebuilt"
    /\ UNCHANGED <<md_target, md_width, md_kind, md_len, md_archived, others_md>>

MdNext == MdArchive \/ MdRebuild

InitMetadata == MdInit /\ CoreIdle /\ SlIdle /\ WrIdle /\ RlIdle /\ PaIdle /\ BxIdle /\ FwIdle /\ OpIdle /\ AgIdle /\ FdIdle
SpecMetadata == InitMetadata /\ [][MdNext]_vars

\* C30: slice and str length metadata round trip.  For every slice or str
\* of any length of the native size type, the element count rebuilt from
\* the archived metadata equals the live element count:
\* pointer_metadata(archived_metadata(x)) = len(x).
MetadataRoundTrip ==
    md_phase = "rebuilt" => md_rebuilt = Some(md_len)

\* the lengths for which the count comes back: those that fit the archived
\* width
MetadataRoundTripInRange ==
    (md_phase = "rebuilt" /\ (md_width >= md_target \/ md_len < 65536)) =>
        md_rebuilt = Some(md_len)

\* a length that does not fit the archived width comes back as its low bits
MetadataTruncated ==
    /\ md_phase = "rebuilt"
    /\ md_target = 32
    /\ md_width = 16
    /\ md_len = 65536 + MaxLen
    /\ md_rebuilt = Some(MaxLen)

====
